---------------------------- MODULE Spec2Model ----------------------------
(***************************************************************************)
(* A model of the DFT engine of fftanalyzer: the prime factor cache        *)
(* (src/fft/prime_cache.rs), the plan selector and plan cache              *)
(* (src/fft/mod.rs), the plans and their transforms (src/fft/orig.rs) and  *)
(* the kernels and their driver (src/fft/improved.rs).                     *)
(***************************************************************************)
EXTENDS Integers, Sequences, FiniteSets, TLC

VARIABLES
    PRIME_LORE,     \* the PrimeLore behind the PRIME_LORE mutex
    asked,          \* the get_factors_all calls SpecLore made so far: <<[n, factors]>>
    overflow_checks,\* the build: TRUE panics on integer overflow, FALSE wraps
    PLAN_CACHE,     \* the map behind the PLAN_CACHE mutex: size -> plan id
    plans,          \* every plan object constructed so far: plan id -> plan, the id
                    \* <<t, k>> naming the k-th plan thread t allocated
    plan_lock,      \* the thread holding the PLAN_CACHE mutex, 0 when free
    lore_lock,      \* the thread holding the PRIME_LORE mutex, 0 when free
    stack,          \* per thread: its find_dft activations, innermost last
    status,         \* per thread: "idle", "busy" or "panicked"
    req,            \* per thread: the size of its last top-level find_dft call, -1 if none
    result,         \* per thread: the plan id its last top-level call returned, NoPlan if none
    handed,         \* every <<n, plan id>> a find_dft(n) call has returned
    calls,          \* number of top-level find_dft calls made so far
    fld,            \* SpecXform: the number field Complex32 is modelled in
    xplan,          \* SpecXform: the plan find_dft returned, None before the call
    xin,            \* SpecXform: the input x of the xform call, <<>> before the call
    xout,           \* SpecXform: how the xform call ended and the output y it left
    xbuf,           \* SpecXform: how the xform_inplace call ended and the buffer it left
    mcall,          \* SpecMany: the arguments of the xform_many call, NoCall before it
    mout,           \* SpecMany: how the xform_many call ended and the output it left
    pstate,         \* SpecPar: per thread, the xform_many call it is in: where it is
                    \* (pc), its arguments (c), its output buffer (out), the block of
                    \* the last mixed-radix stage (i), and whether the other thread
                    \* was inside a call during one of its steps (met)
    scratch,        \* SpecPar: the scratch vectors of the calls
    kin,            \* SpecKernel: the kernel size N, the lane count L and the batches
                    \* x[0], ..., x[N - 1] handed to K::transform, NoBatch before it
    kout,           \* SpecKernel: the batches X[0], ..., X[N - 1] it left
    drv,            \* SpecDriver: the dosimd2 call: where it is (pc), its arguments,
                    \* the batch strides after improved.rs:386-389 (step2), the
                    \* transforms done (n), how far the slices input and output
                    \* have moved on (ioff, ooff), the output buffer, and the
                    \* batches run so far (log)
    blu,            \* SpecChirp: the DFTBluestein::new call: where it is (pc), n,
                    \* nb, the loop index k, the tables w0 and w1, and the stores
                    \* <<index, value>> made to w1 so far (writes)
    rad             \* SpecRader: the DFTRader::xform_many call: where it is (pc),
                    \* its arguments (c), the scratch vector buf, buf as the first
                    \* sub-plan call left it (after), the output buffer (out), the
                    \* loop index i, the buf indices used so far as <<stage, i, k,
                    \* index>> (used) and the ranges of buf handed to the
                    \* sub-plan as input and output (regions)

loreVars == <<PRIME_LORE, asked>>
planVars == <<overflow_checks, PLAN_CACHE, plans, plan_lock, lore_lock, stack,
              status, req, result, handed, calls>>
parVars == <<pstate, scratch>>
kernVars == <<kin, kout, drv, blu, rad>>
xformVars == <<fld, xplan, xin, xout, xbuf, mcall, mout, pstate, scratch, kin, kout, drv,
              blu, rad>>
vars == <<PRIME_LORE, asked, overflow_checks, PLAN_CACHE, plans, plan_lock,
          lore_lock, stack, status, req, result, handed, calls, fld, xplan, xin, xout,
          xbuf, mcall, mout, pstate, scratch, kin, kout, drv, blu, rad>>

(***************************************************************************)
(* Bounds of the model.                                                    *)
(***************************************************************************)
\* factor queries are drawn from WarmLimit .. WarmLimit + Span and the products
\* of the primes in that range
Span == 9
\* number of factor queries in one behaviour of SpecLore
MaxQueries == 3
\* top-level find_dft calls ask for a size in 0 .. MaxN
MaxN == 10
\* deepest nesting of find_dft activations a thread may reach
MaxDepth == 5
\* the threads calling find_dft
Threads == {1, 2}
\* number of top-level find_dft calls in one behaviour of Spec: one per thread
\* on average, made at once or one after another, by one thread or by both
MaxCalls == Cardinality(Threads)
\* SpecXform transforms vectors of the lengths 1 .. MaxXform
MaxXform == 9
\* with at most MaxTerms entries that are not 0
MaxTerms == 2
\* SpecMany runs 1 .. MaxCount transforms in one xform_many call
MaxCount == 4
\* every xform_many call of SpecPar runs ParCount transforms
ParCount == 2
\* SpecRadix builds DFTRadix::new(n) for the composite sizes n up to MaxRadix
MaxRadix == 12
\* SpecDriver hands 0 .. MaxBatch transforms to one dosimd2 call
MaxBatch == 13
\* SpecChirp builds DFTBluestein::new(n, nb) for the sizes n in 1 .. MaxChirp
MaxChirp == 8

(***************************************************************************)
(* prime_cache.rs                                                          *)
(***************************************************************************)
\* PrimeLore::new warms the cache over 0..1024
WarmLimit == 1024

\* last_prime | 1
OrOne(x) == IF x % 2 = 1 THEN x ELSE x + 1

\* for &p in &self.primes { if p * p > n { break } if n % p == 0 { solution = p; break } }
\* the loop stops at the first known prime p with p * p > n or p dividing n
\* (p * p > n is written p > n \div p, the same for p >= 1, so that no product
\* the loop never forms is formed here)
ScanKnownPrimes(primes, n) ==
    LET stops == {i \in 1..Len(primes) :
                     primes[i] > n \div primes[i] \/ n % primes[i] = 0}
    IN IF stops = {} THEN n
       ELSE LET i == CHOOSE j \in stops : \A k \in stops : j <= k
                p == primes[i]
            IN IF p > n \div p THEN n ELSE p

\* a trial loop that takes the first candidate, dividing or not
TrialOddAny(start, n) ==
    LET hits == {p \in start .. (n \div start) : (p - start) % 2 = 0 /\ p * p <= n}
    IN IF hits = {} THEN n
       ELSE CHOOSE p \in hits : \A r \in hits : p <= r

\* let mut p = self.last_prime | 1; while p * p <= n { if n % p == 0 {...break} p += 2 }
\* the first p of start, start + 2, ... with p * p <= n that divides n, else n
\* (p * p <= n and p >= start give p <= n \div start)
TrialOdd(start, n) ==
    LET hits == {p \in start .. (n \div start) :
                    /\ (p - start) % 2 = 0
                    /\ p * p <= n
                    /\ n % p = 0}
    IN IF hits = {} THEN n
       ELSE CHOOSE p \in hits : \A r \in hits : p <= r

\* self.primes.binary_search(&n) on the ordered list: Err(pos) inserts at pos
InsertOrdered(primes, n) ==
    IF \E i \in 1..Len(primes) : primes[i] = n THEN primes
    ELSE LET pos == Cardinality({i \in 1..Len(primes) : primes[i] < n})
         IN SubSeq(primes, 1, pos) \o <<n>> \o SubSeq(primes, pos + 1, Len(primes))

\* self.smallest_factors.insert(n, solution)
MapInsert(m, k, v) == (k :> v) @@ m

\* the part of PrimeLore::find after a cache miss
FindMiss(lore, n) ==
    LET s1 == ScanKnownPrimes(lore.primes, n)
        solution == IF s1 = n THEN TrialOdd(OrOne(lore.last_prime), n) ELSE s1
        isPrime == solution = n
        primes2 == IF ~isPrime THEN lore.primes
                   ELSE IF n > lore.last_prime THEN Append(lore.primes, n)
                   ELSE InsertOrdered(lore.primes, n)
        last2 == IF isPrime /\ n > lore.last_prime THEN n ELSE lore.last_prime
    IN [lore |-> [smallest_factors |-> MapInsert(lore.smallest_factors, n, solution),
                  primes |-> primes2,
                  last_prime |-> last2],
        f |-> solution]

\* a find that honours only the seeded entries and recomputes every other
FindRecompute(lore, n) ==
    IF n \in DOMAIN lore.smallest_factors /\ n <= 2
    THEN [lore |-> lore, f |-> lore.smallest_factors[n]]
    ELSE FindMiss(lore, n)

\* PrimeLore::find: the cached value if present, else compute and cache
Find(lore, n) ==
    IF n \in DOMAIN lore.smallest_factors
    THEN [lore |-> lore, f |-> lore.smallest_factors[n]]
    ELSE FindMiss(lore, n)

\* for i in 0..1024 { s.find(i) }, split in halves to keep the evaluation shallow
RECURSIVE Warm(_, _, _)
Warm(lore, lo, hi) ==
    IF lo >= hi THEN lore
    ELSE IF hi = lo + 1 THEN Find(lore, lo).lore
    ELSE LET mid == (lo + hi) \div 2
             left == Warm(lore, lo, mid)
         IN IF left.last_prime >= lore.last_prime   \* always: the lower half is done first
            THEN Warm(left, mid, hi)
            ELSE left

\* PrimeLore::new
PrimeLoreNew ==
    Warm([smallest_factors |-> (0 :> 0) @@ (1 :> 1) @@ (2 :> 2),
          primes |-> <<2>>,
          last_prime |-> 2],
         0, WarmLimit)

\* the loop of get_factors_all: find, push, stop when f == n, else n /= f
RECURSIVE FactorLoop(_, _, _)
FactorLoop(lore, n, factors) ==
    LET r == Find(lore, n)
        fs == Append(factors, r.f)
    IN IF r.f = n
       THEN [lore |-> r.lore, factors |-> fs, count |-> Len(fs)]
       ELSE FactorLoop(r.lore, n \div r.f, fs)

\* get_factors_all, the part under the PRIME_LORE lock
GetFactorsAll(lore, n) ==
    IF n <= 1 THEN [lore |-> lore, factors |-> <<>>, count |-> 0]
    ELSE FactorLoop(lore, n, <<>>)

(***************************************************************************)
(* SpecLore: any sequence of get_factors_all calls on the warmed cache.    *)
(***************************************************************************)
IsPrimeNumber(n) == n >= 2 /\ \A d \in 2..(n - 1) : d * d > n \/ n % d # 0

NearPrimes == {p \in WarmLimit .. (WarmLimit + Span) : IsPrimeNumber(p)}

\* a cached number, the two ends of the range, its primes and their products
QueryInputs ==
    {12, WarmLimit, WarmLimit + Span} \cup NearPrimes \cup {a * b : a, b \in NearPrimes}

InitPlans ==
    /\ overflow_checks \in BOOLEAN
    /\ PLAN_CACHE = <<>>
    /\ plans = <<>>
    /\ plan_lock = 0
    /\ lore_lock = 0
    /\ stack = [t \in Threads |-> <<>>]
    /\ status = [t \in Threads |-> "idle"]
    /\ req = [t \in Threads |-> -1]
    /\ result = [t \in Threads |-> <<0, 0>>]
    /\ handed = {}
    /\ calls = 0

\* no field: the specifications of the caches do no arithmetic on Complex32
NoField == [P |-> 0, order |-> 0, roots |-> <<>>]

\* no xform_many call made yet
NoCall == [count |-> 0]

\* no K::transform call made yet
NoBatch == [N |-> 0, L |-> 0, x |-> <<>>]

\* no dosimd2 call made yet
NoDrive == [pc |-> "idle", num |-> 0, n |-> 0, log |-> <<>>]

\* no DFTBluestein::new call made yet
NoChirp == [pc |-> "idle", n |-> 0, nb |-> 0, k |-> 0, w0 |-> <<>>, w1 |-> <<>>,
            writes |-> <<>>]

\* no DFTRader::xform_many call made yet
NoRader == [pc |-> "idle", c |-> NoCall, buf |-> <<>>, after |-> <<>>, out |-> <<>>,
            i |-> 0, used |-> {}, regions |-> <<>>]

\* a thread that is not inside xform_many
NoRun == [pc |-> "idle", c |-> NoCall, out |-> <<>>, i |-> 0, met |-> FALSE]

\* no plan asked for and no transform run yet, the numbers being those of field f
XformIdle(f) ==
    /\ fld = f
    /\ xplan = [kind |-> "None", n |-> 0]
    /\ xin = <<>>
    /\ xout = [ok |-> TRUE, out |-> <<>>]
    /\ xbuf = [ok |-> TRUE, out |-> <<>>]
    /\ mcall = NoCall
    /\ mout = [ok |-> TRUE, out |-> <<>>]
    /\ pstate = [t \in Threads |-> NoRun]
    /\ scratch = [t \in Threads |-> <<>>]
    /\ kin = NoBatch
    /\ kout = <<>>
    /\ drv = NoDrive
    /\ blu = NoChirp
    /\ rad = NoRader

InitLore ==
    /\ PRIME_LORE = PrimeLoreNew
    /\ asked = <<>>
    /\ InitPlans
    /\ XformIdle(NoField)

\* one call get_factors_all(n): lock, factor, unlock
Query(n) ==
    /\ Len(asked) < MaxQueries
    /\ LET r == GetFactorsAll(PRIME_LORE, n) IN
        /\ PRIME_LORE' = r.lore
        /\ asked' = Append(asked, [n |-> n, factors |-> r.factors])
    /\ UNCHANGED planVars
    /\ UNCHANGED xformVars

NextLore == \E n \in QueryInputs : Query(n)

SpecLore == InitLore /\ [][NextLore]_vars

(***************************************************************************)
(* mod.rs and the constructors of orig.rs: find_dft as a thread's steps.   *)
(* A find_dft activation is a frame; the constructor it runs is inlined in *)
(* it.  pc names the source line the activation is at: Lnn in fft/mod.rs,  *)
(* Rnn (DFTRadix::new), Dnn (DFTRader::new), Bnn (DFTBluestein::new) in    *)
(* fft/orig.rs.                                                            *)
(***************************************************************************)
\* a match that also takes 0 for a kernel size
KernelSizesWithZero == {0, 1, 2, 3, 4, 5, 6, 8}

\* match n { 1 | 2 | 3 | 4 | 5 | 6 | 8 => DFTImproved<KernelN, N> }
KernelSizes == {1, 2, 3, 4, 5, 6, 8}

\* usize::next_power_of_two for x >= 1 (and 1 for x = 0)
RECURSIVE PowerOfTwoFrom(_, _)
PowerOfTwoFrom(pw, x) == IF pw >= x THEN pw ELSE PowerOfTwoFrom(2 * pw, x)

NextPowerOfTwo(x) == PowerOfTwoFrom(1, x)

\* powermod; -1 stands for the panic of `base %= modulus` with modulus 0
RECURSIVE PowermodLoop(_, _, _, _)
PowermodLoop(result_, base, exp, modulus) ==
    IF exp = 0 THEN result_
    ELSE PowermodLoop(IF exp % 2 = 1 THEN (result_ * base) % modulus ELSE result_,
                      (base * base) % modulus, exp \div 2, modulus)

Powermod(base, exp, modulus) ==
    IF modulus = 0 THEN -1 ELSE PowermodLoop(1, base % modulus, exp, modulus)

\* the generator search of DFTRader::new: the first g >= 2 with
\* powermod(g, (n - 1) / factors[i], n) != 1 for every i; -1 when powermod panics
RECURSIVE FindGenerator(_, _, _)
FindGenerator(g, n, factors) ==
    IF \E i \in 1..Len(factors) : Powermod(g, (n - 1) \div factors[i], n) = -1 THEN -1
    ELSE IF \A i \in 1..Len(factors) : Powermod(g, (n - 1) \div factors[i], n) # 1 THEN g
    ELSE FindGenerator(g + 1, n, factors)

\* the prime factors of usize::MAX = 2^64 - 1, the argument of get_factors_all
\* when DFTRader::new(0) computes n - 1 in a build that wraps
UsizeMaxFactors == <<3, 5, 17, 257, 641, 65537, 6700417>>

\* get_factors_all(usize::MAX) on the lore: the first five factors are known
\* primes, 65537 is found by trial division of a composite (nothing is pushed),
\* and find(6700417) runs last.  TLC's integers end at 2^31 - 1, so the cache
\* entries whose keys are above that are left out of smallest_factors.
GetFactorsAllUsizeMax(lore) ==
    [lore |-> Find(lore, UsizeMaxFactors[7]).lore,
     factors |-> UsizeMaxFactors,
     count |-> Len(UsizeMaxFactors)]

\* no plan: None of Option<Arc<dyn DFTBase>>, or a local not yet assigned
NoPlan == <<0, 0>>

PlanIds == DOMAIN plans

\* the id of the next plan thread t allocates
NewId(t) == <<t, Cardinality({i \in PlanIds : i[1] = t}) + 1>>

NoFrame == [n |-> 0, pc |-> "", count |-> 0, p |-> 0, q |-> 0, nb |-> 0,
            sub1 |-> NoPlan, sub2 |-> NoPlan, plan |-> NoPlan, dst |-> ""]

NewFrame(n, dst) == [NoFrame EXCEPT !.n = n, !.pc = "L55", !.dst = dst]

Depth(t) == Len(stack[t])
Top(t) == stack[t][Depth(t)]
AtPc(t, pcs) == Depth(t) > 0 /\ Top(t).pc \in pcs

\* the stack of t with its innermost frame replaced
WithTop(t, f) == [stack[t] EXCEPT ![Depth(t)] = f]

\* the stack of t after its innermost find_dft returns plan id: the caller's
\* frame receives it in the local the call was made for
AfterReturn(t, id) ==
    IF Depth(t) = 1 THEN <<>>
    ELSE LET callee == Top(t)
             caller == stack[t][Depth(t) - 1]
             caller2 == IF callee.dst = "sub1" THEN [caller EXCEPT !.sub1 = id]
                        ELSE [caller EXCEPT !.sub2 = id]
         IN Append(SubSeq(stack[t], 1, Depth(t) - 2), caller2)

\* find_dft(n) of thread t returns plan id
Return(t, id) ==
    /\ stack' = [stack EXCEPT ![t] = AfterReturn(t, id)]
    /\ handed' = handed \cup {<<Top(t).n, id>>}
    /\ IF Depth(t) = 1
       THEN /\ status' = [status EXCEPT ![t] = "idle"]
            /\ result' = [result EXCEPT ![t] = id]
       ELSE UNCHANGED <<status, result>>

\* a panic unwinds the whole thread
Panic(t) ==
    /\ stack' = [stack EXCEPT ![t] = <<>>]
    /\ status' = [status EXCEPT ![t] = "panicked"]
    /\ UNCHANGED <<result, handed>>

\* the innermost frame of t calls find_dft(n) for its local dst and goes on at pc
CallSub(t, n, dst, pc) ==
    /\ Depth(t) < MaxDepth
    /\ stack' = [stack EXCEPT ![t] = Append(WithTop(t, [Top(t) EXCEPT !.pc = pc]),
                                             NewFrame(n, dst))]

\* the fields of a plan object (Arc::new allocates it under a new id)
Plan(kind, n, p, q, nb, sub1, sub2) ==
    [kind |-> kind, n |-> n, p |-> p, q |-> q, nb |-> nb, sub1 |-> sub1, sub2 |-> sub2]

\* a thread calls find_dft(n)
Call(t, n) ==
    /\ status[t] = "idle"
    /\ calls < MaxCalls
    /\ calls' = calls + 1
    /\ status' = [status EXCEPT ![t] = "busy"]
    /\ req' = [req EXCEPT ![t] = n]
    /\ result' = [result EXCEPT ![t] = NoPlan]
    /\ stack' = [stack EXCEPT ![t] = <<NewFrame(n, "")>>]
    /\ UNCHANGED <<PRIME_LORE, asked, overflow_checks, PLAN_CACHE, plans, plan_lock,
                   lore_lock, handed>>
    /\ UNCHANGED xformVars

\* PLAN_CACHE.lock() at mod.rs:55 and mod.rs:98
LockPlanCache(t) ==
    /\ AtPc(t, {"L55", "L98"})
    /\ plan_lock = 0
    /\ plan_lock' = t
    /\ stack' = [stack EXCEPT ![t] =
                    WithTop(t, [Top(t) EXCEPT !.pc = IF Top(t).pc = "L55" THEN "L56" ELSE "L99"])]
    /\ UNCHANGED <<PRIME_LORE, asked, overflow_checks, PLAN_CACHE, plans, lore_lock,
                   status, req, result, handed, calls>>
    /\ UNCHANGED xformVars

\* a lookup whose guard lives on after the block
HolderAfterLookupKept(t) == t

\* the holder of the PLAN_CACHE mutex after the lookup block of mod.rs:54-59
\* ends on a miss: the guard is dropped at the end of the block
HolderAfterLookup(t) == 0

\* cache.get(&n) under the lock: a hit returns the cached plan, a miss goes on
Lookup(t) ==
    /\ AtPc(t, {"L56"})
    /\ plan_lock = t
    /\ IF Top(t).n \in DOMAIN PLAN_CACHE
       THEN /\ plan_lock' = 0
            /\ Return(t, PLAN_CACHE[Top(t).n])
       ELSE /\ plan_lock' = HolderAfterLookup(t)
            /\ stack' = [stack EXCEPT ![t] = WithTop(t, [Top(t) EXCEPT !.pc = "L72"])]
            /\ UNCHANGED <<status, result, handed>>
    /\ UNCHANGED <<PRIME_LORE, asked, overflow_checks, PLAN_CACHE, plans, lore_lock,
                   req, calls>>
    /\ UNCHANGED xformVars

\* match n: a kernel size builds DFTImproved, every other size asks for factors
Select(t) ==
    /\ AtPc(t, {"L72"})
    /\ IF Top(t).n \in KernelSizes
       THEN /\ plans' = MapInsert(plans, NewId(t),
                                   Plan("Improved", Top(t).n, 0, 0, 0, NoPlan, NoPlan))
            /\ stack' = [stack EXCEPT ![t] =
                   WithTop(t, [Top(t) EXCEPT !.pc = "L98", !.plan = NewId(t)])]
       ELSE /\ stack' = [stack EXCEPT ![t] = WithTop(t, [Top(t) EXCEPT !.pc = "L81"])]
            /\ UNCHANGED plans
    /\ UNCHANGED <<PRIME_LORE, asked, overflow_checks, PLAN_CACHE, plan_lock, lore_lock,
                   status, req, result, handed, calls>>
    /\ UNCHANGED xformVars

\* PRIME_LORE.lock().unwrap() at prime_cache.rs:98, called from mod.rs:81,
\* orig.rs:28 and orig.rs:161
LockPrimeLore(t) ==
    /\ AtPc(t, {"L81", "R28", "D161"})
    /\ lore_lock = 0
    /\ lore_lock' = t
    /\ stack' = [stack EXCEPT ![t] =
                    WithTop(t, [Top(t) EXCEPT !.pc = CASE Top(t).pc = "L81" -> "L81b"
                                                       [] Top(t).pc = "R28" -> "R28b"
                                                       [] OTHER -> "D161b"])]
    /\ UNCHANGED <<PRIME_LORE, asked, overflow_checks, PLAN_CACHE, plans, plan_lock,
                   status, req, result, handed, calls>>
    /\ UNCHANGED xformVars

\* a radix taken from the other end of the factor list
RadixPLast(n, factors) == IF Len(factors) > 0 THEN factors[Len(factors)] ELSE n

\* the radix DFTRadix::new takes from the factor list: factors[0], or n if none
RadixP(n, factors) == IF Len(factors) > 0 THEN factors[1] ELSE n

\* a q that is not divided by p
RadixQSame(n, p) == n

\* let q = n / p
RadixQ(n, p) == n \div p

\* mod.rs:81-93: get_factors_all(n) under the PRIME_LORE lock, then the choice
\* count >= 2: DFTRadix::new; else nb = (2 * n - 1).next_power_of_two() and
\* count == 0: DFTRader::new, otherwise DFTBluestein::new.  2 * n - 1 overflows
\* for n = 0: a checking build panics there, a wrapping build goes on with
\* usize::MAX, whose next_power_of_two wraps to 0.
FactorsSelect(t) ==
    /\ AtPc(t, {"L81b"})
    /\ lore_lock = t
    /\ lore_lock' = 0
    /\ LET n == Top(t).n
           r == GetFactorsAll(PRIME_LORE, n)
           nb == IF n = 0 THEN 0 ELSE NextPowerOfTwo(2 * n - 1)
       IN /\ PRIME_LORE' = r.lore
          /\ IF r.count >= 2
             THEN /\ stack' = [stack EXCEPT ![t] =
                        WithTop(t, [Top(t) EXCEPT !.pc = "R28", !.count = r.count])]
                  /\ UNCHANGED <<status, result, handed>>
             ELSE IF n = 0 /\ overflow_checks
             THEN Panic(t)
             ELSE /\ stack' = [stack EXCEPT ![t] =
                        WithTop(t, [Top(t) EXCEPT !.pc = IF r.count = 0 THEN "D161" ELSE "B348",
                                                  !.count = r.count, !.nb = nb])]
                  /\ UNCHANGED <<status, result, handed>>
    /\ UNCHANGED <<asked, overflow_checks, PLAN_CACHE, plans, plan_lock, req, calls>>
    /\ UNCHANGED xformVars

\* orig.rs:28-30: get_factors_all(n) under the PRIME_LORE lock, p and q = n / p
RadixFactors(t) ==
    /\ AtPc(t, {"R28b"})
    /\ lore_lock = t
    /\ lore_lock' = 0
    /\ LET n == Top(t).n
           r == GetFactorsAll(PRIME_LORE, n)
           p == RadixP(n, r.factors)
       IN /\ PRIME_LORE' = r.lore
          /\ stack' = [stack EXCEPT ![t] =
                WithTop(t, [Top(t) EXCEPT !.pc = "R44", !.p = p, !.q = RadixQ(n, p)])]
    /\ UNCHANGED <<asked, overflow_checks, PLAN_CACHE, plans, plan_lock, status, req,
                   result, handed, calls>>
    /\ UNCHANGED xformVars

\* orig.rs:44: let dft_p = if p > 1 { Some(find_dft(p)) } else { None }
RadixSubP(t) ==
    /\ AtPc(t, {"R44"})
    /\ IF Top(t).p > 1
       THEN CallSub(t, Top(t).p, "sub1", "R45")
       ELSE stack' = [stack EXCEPT ![t] = WithTop(t, [Top(t) EXCEPT !.pc = "R45"])]
    /\ UNCHANGED <<PRIME_LORE, asked, overflow_checks, PLAN_CACHE, plans, plan_lock,
                   lore_lock, status, req, result, handed, calls>>
    /\ UNCHANGED xformVars

\* orig.rs:45: let dft_q = if q > 1 { Some(find_dft(q)) } else { None }
RadixSubQ(t) ==
    /\ AtPc(t, {"R45"})
    /\ IF Top(t).q > 1
       THEN CallSub(t, Top(t).q, "sub2", "R47")
       ELSE stack' = [stack EXCEPT ![t] = WithTop(t, [Top(t) EXCEPT !.pc = "R47"])]
    /\ UNCHANGED <<PRIME_LORE, asked, overflow_checks, PLAN_CACHE, plans, plan_lock,
                   lore_lock, status, req, result, handed, calls>>
    /\ UNCHANGED xformVars

\* orig.rs:47-54 and mod.rs:84: Arc::new(DFTRadix { n, p, q, wtable, dft_p, dft_q })
RadixBuild(t) ==
    /\ AtPc(t, {"R47"})
    /\ LET f == Top(t) IN
        /\ plans' = MapInsert(plans, NewId(t),
                              Plan("RadixP", f.n, f.p, f.q, 0, f.sub1, f.sub2))
        /\ stack' = [stack EXCEPT ![t] =
               WithTop(t, [f EXCEPT !.pc = "L98", !.plan = NewId(t)])]
    /\ UNCHANGED <<PRIME_LORE, asked, overflow_checks, PLAN_CACHE, plan_lock, lore_lock,
                   status, req, result, handed, calls>>
    /\ UNCHANGED xformVars

\* the one sub-plan request of the two convolution constructors:
\* orig.rs:367 let dft_nb = find_dft(nb) (DFTBluestein::new, after w0 and w1 are
\* built) and orig.rs:193 let dft_n1 = find_dft(n - 1) (DFTRader::new)
ConvolutionSub(t) ==
    /\ AtPc(t, {"B348", "D193"})
    /\ IF Top(t).pc = "B348"
       THEN CallSub(t, Top(t).nb, "sub1", "B368")
       ELSE CallSub(t, Top(t).n - 1, "sub1", "D194")
    /\ UNCHANGED <<PRIME_LORE, asked, overflow_checks, PLAN_CACHE, plans, plan_lock,
                   lore_lock, status, req, result, handed, calls>>
    /\ UNCHANGED xformVars

\* the kernel is transformed in place by the sub-plan and the plan is made:
\* orig.rs:368-376, mod.rs:90 Arc::new(DFTBluestein { n, nb, w0, w1, dft_nb }) and
\* orig.rs:194-209, mod.rs:88 Arc::new(DFTRader { n, g, g_inv, omega, dft_n1 })
ConvolutionBuild(t) ==
    /\ AtPc(t, {"B368", "D194"})
    /\ LET f == Top(t) IN
        /\ plans' = MapInsert(plans, NewId(t),
                              IF f.pc = "B368"
                              THEN Plan("Bluestein", f.n, 0, 0, f.nb, f.sub1, NoPlan)
                              ELSE Plan("Rader", f.n, f.p, 0, 0, f.sub1, NoPlan))
        /\ stack' = [stack EXCEPT ![t] =
               WithTop(t, [f EXCEPT !.pc = "L98", !.plan = NewId(t)])]
    /\ UNCHANGED <<PRIME_LORE, asked, overflow_checks, PLAN_CACHE, plan_lock, lore_lock,
                   status, req, result, handed, calls>>
    /\ UNCHANGED xformVars

\* orig.rs:161-178: get_factors_all(n - 1) under the PRIME_LORE lock, then the
\* generator search.  find_dft reaches DFTRader::new only with count == 0,
\* that is with n = 0 in a wrapping build (1 is a kernel size): n - 1 is
\* usize::MAX, and powermod(g, _, 0) panics on `base %= modulus`.
RaderFactors(t) ==
    /\ AtPc(t, {"D161b"})
    /\ lore_lock = t
    /\ lore_lock' = 0
    /\ LET n == Top(t).n
           r == IF n = 0 THEN GetFactorsAllUsizeMax(PRIME_LORE)
                ELSE GetFactorsAll(PRIME_LORE, n - 1)
           g == FindGenerator(2, n, r.factors)
       IN /\ PRIME_LORE' = r.lore
          /\ IF g = -1 \/ (n = 0 /\ overflow_checks)
             THEN Panic(t)
             ELSE /\ stack' = [stack EXCEPT ![t] =
                         WithTop(t, [Top(t) EXCEPT !.pc = "D193", !.p = g,
                                                   !.count = r.count])]
                  /\ UNCHANGED <<status, result, handed>>
    /\ UNCHANGED <<asked, overflow_checks, PLAN_CACHE, plans, plan_lock, req, calls>>
    /\ UNCHANGED xformVars

\* mod.rs:99-100: cache.insert(n, plan.clone()); plan
Insert(t) ==
    /\ AtPc(t, {"L99"})
    /\ plan_lock = t
    /\ plan_lock' = 0
    /\ PLAN_CACHE' = MapInsert(PLAN_CACHE, Top(t).n, Top(t).plan)
    /\ Return(t, Top(t).plan)
    /\ UNCHANGED <<PRIME_LORE, asked, overflow_checks, plans, lore_lock, req, calls>>
    /\ UNCHANGED xformVars

\* the steps of thread t inside find_dft
Step(t) ==
    \/ LockPlanCache(t)
    \/ Lookup(t)
    \/ Select(t)
    \/ LockPrimeLore(t)
    \/ FactorsSelect(t)
    \/ RadixFactors(t)
    \/ RadixSubP(t)
    \/ RadixSubQ(t)
    \/ RadixBuild(t)
    \/ ConvolutionSub(t)
    \/ ConvolutionBuild(t)
    \/ RaderFactors(t)
    \/ Insert(t)

\* the sizes top-level calls ask for: 0 and the upper third of 1 .. MaxN (the
\* smaller sizes are asked for as sub-plans)
ReqSizes == {0} \cup {n \in 1..MaxN : 3 * n > 2 * MaxN}

Init ==
    /\ PRIME_LORE = PrimeLoreNew
    /\ asked = <<>>
    /\ InitPlans
    /\ XformIdle(NoField)

Next ==
    \/ \E t \in Threads, n \in ReqSizes : Call(t, n)
    \/ \E t \in Threads : Step(t)

Spec == Init /\ [][Next]_vars

\* every thread inside find_dft keeps taking steps while it can
FairSpec == Init /\ [][Next]_vars /\ \A t \in Threads : WF_vars(Step(t))

(***************************************************************************)
(* Complex32 and f32.  Rounding is left out: the transforms are run in     *)
(* exact arithmetic.  Every number they use lies in the ring generated by  *)
(* the Gaussian integers, the halves and the roots of unity exp(-2*pi*i/d) *)
(* for the angle denominators d below, and that ring is mapped, sums,      *)
(* products and conjugates kept, onto the field of FieldP^2 elements       *)
(* re + im*i with re, im in 0 .. FieldP - 1: FieldP is a prime that is -1  *)
(* modulo RootOrder, so that -1 has no square root modulo FieldP, the      *)
(* numbers of norm 1 form a cyclic group of FieldP + 1 elements and        *)
(* <<re, im>> |-> <<re, -im>> maps every root of unity to its inverse.     *)
(* Two exact results that differ in the field differ as complex numbers.   *)
(* The field is worked out once, in the initial state: fld holds FieldP,   *)
(* RootOrder and the powers of exp(-2*pi*i/RootOrder).                     *)
(***************************************************************************)
RECURSIVE Gcd(_, _)
Gcd(a, b) == IF b = 0 THEN a ELSE Gcd(b, a % b)

Lcm(a, b) == (a \div Gcd(a, b)) * b

RECURSIVE LcmOf(_)
LcmOf(S) == IF S = {} THEN 1 ELSE LET x == CHOOSE x \in S : TRUE IN Lcm(x, LcmOf(S \ {x}))

\* a function or sequence, evaluated once and for all
Force(s) == IF s = <<>> THEN <<>> ELSE s

\* the sizes 1 .. MaxXform that find_dft hands to DFTBluestein::new (mod.rs:72-93):
\* the primes that are no kernel size
BluesteinSizes == {n \in 1..MaxXform : n \notin KernelSizes /\ IsPrimeNumber(n)}

\* the d of every angle 2*pi*k/d the plans of the sizes 1 .. MaxXform use: i_c
\* (4), sab and cab of the kernels (6, 8, 10), w(_, n) of DFTRadix and DFTRader,
\* w(_, 2 * n) of DFTBluestein, and the sizes nb of the Bluestein sub-plans
AngleDenominators ==
    {4, 6, 8, 10} \cup {n : n \in 1..MaxXform} \cup {2 * n : n \in BluesteinSizes}
        \cup {NextPowerOfTwo(2 * n - 1) : n \in BluesteinSizes}

RootOrder == LcmOf(AngleDenominators)

\* the least prime that is -1 modulo RootOrder
FieldP ==
    LET cand == {k * RootOrder - 1 : k \in 1..8}
        primes == {p \in cand : IsPrimeNumber(p)}
    IN CHOOSE p \in primes : \A r \in primes : p <= r

\* the product of a and b, and the power e of z, in the field of m^2 elements
MulMod(a, b, m) == <<(a[1] * b[1] - a[2] * b[2]) % m, (a[1] * b[2] + a[2] * b[1]) % m>>

RECURSIVE PowMod(_, _, _)
PowMod(z, e, m) ==
    IF z = <<1, 0>> \/ e = 0 THEN <<1, 0>>
    ELSE LET h == PowMod(z, e \div 2, m)
             s == MulMod(h, h, m)
         IN IF e % 2 = 1 THEN MulMod(s, z, m) ELSE s

\* z has order RootOrder
FullOrder(z) ==
    \A q \in 2..RootOrder :
        (RootOrder % q = 0 /\ IsPrimeNumber(q)) => PowMod(z, RootOrder \div q, FieldP) # <<1, 0>>

\* a number of norm 1 whose order divides RootOrder
UnitOf(a) == PowMod(<<a, 1>>, (FieldP * FieldP - 1) \div RootOrder, FieldP)

\* exp(-2*pi*i / RootOrder): a number of norm 1 and of order RootOrder whose
\* power RootOrder / 4 is -i
Root ==
    LET z == UnitOf(CHOOSE a \in 1..(FieldP - 1) : FullOrder(UnitOf(a)))
    IN IF PowMod(z, RootOrder \div 4, FieldP) = <<0, FieldP - 1>>
       THEN z ELSE <<z[1], FieldP - z[2]>>

Field ==
    [P |-> FieldP, order |-> RootOrder,
     roots |-> [k \in 0..(RootOrder - 1) |-> PowMod(Root, k, FieldP)]]

\* impl Add, Sub for BatchComplex (improved.rs:43-73) and for Complex32
CAdd(a, b) == <<(a[1] + b[1]) % fld.P, (a[2] + b[2]) % fld.P>>
CSub(a, b) == <<(a[1] - b[1]) % fld.P, (a[2] - b[2]) % fld.P>>

\* impl Mul<Complex32> for BatchComplex (improved.rs:92-108) and for Complex32
CMul(a, b) == MulMod(a, b, fld.P)

\* impl Mul<f32> for BatchComplex (improved.rs:75-90) and for Complex32
CScale(a, s) == <<(a[1] * s) % fld.P, (a[2] * s) % fld.P>>

\* Complex32::conj
Conj(a) == <<a[1], (fld.P - a[2]) % fld.P>>

\* 1.0 / x for the f32 x
RInv(x) == Powermod(x, fld.P - 2, fld.P)

\* orig.rs:6-9: fn w(k, n) = Complex32::from_polar(1.0, -2.0 * PI * k / n)
w(k, n) == fld.roots[(k * (fld.order \div n)) % fld.order]

\* improved.rs:128-136: sab(a, b) = sin(pi * a / b), cab(a, b) = cos(pi * a / b)
sab(a, b) == (fld.P - w(a, 2 * b)[2]) % fld.P
cab(a, b) == w(a, 2 * b)[1]

\* an imaginary unit of the other sign
i_cConj == <<0, fld.P - 1>>

\* improved.rs:140-142
i_c == <<0, 1>>

\* the f32 literals 0.5 and 0.25
Half == RInv(2)
Quarter == RInv(4)

(***************************************************************************)
(* improved.rs: the kernels.  x[a] of the source is x[a] here, a function  *)
(* on 0 .. N - 1; the result lists X[0], X[1], ... of the source.          *)
(***************************************************************************)
Kernel1(x) == <<x[0]>>

Kernel2(x) == <<CAdd(x[0], x[1]), CSub(x[0], x[1])>>

Kernel3(x) ==
    LET t0 == CMul(CScale(CSub(x[1], x[2]), sab(1, 3)), i_c)
        u0 == CAdd(x[1], x[2])
        u1 == CSub(x[0], CScale(u0, Half))
    IN <<CAdd(x[0], u0), CSub(u1, t0), CAdd(u1, t0)>>

Kernel4(x) ==
    LET t0 == CAdd(x[0], x[2])
        t1 == CAdd(x[3], x[1])
        u0 == CSub(x[0], x[2])
        u1 == CMul(CSub(x[3], x[1]), i_c)
    IN <<CAdd(t0, t1), CAdd(u0, u1), CSub(t0, t1), CSub(u0, u1)>>

Kernel5(x) ==
    LET a == Quarter
        b == sab(2, 5)
        c == sab(1, 5)
        d == (cab(1, 5) - a) % fld.P
        t0 == CAdd(x[1], x[4])
        t1 == CAdd(x[2], x[3])
        t2 == CScale(CSub(t0, t1), d)
        u0 == CSub(x[1], x[4])
        u1 == CSub(x[2], x[3])
        u2 == CAdd(t0, t1)
        u3 == CSub(x[0], CScale(u2, a))
        t4 == CAdd(u3, t2)
        t5 == CMul(CAdd(CScale(u0, b), CScale(u1, c)), i_c)
        u4 == CSub(u3, t2)
        u5 == CMul(CSub(CScale(u1, b), CScale(u0, c)), i_c)
    IN <<CAdd(x[0], u2), CSub(t4, t5), CAdd(u4, u5), CSub(u4, u5), CAdd(t4, t5)>>

Kernel6(x) ==
    LET a == Half
        b == sab(1, 3)
        t0 == CAdd(x[0], x[3])
        t1 == CAdd(x[4], x[1])
        t2 == CAdd(x[2], x[5])
        t3 == CSub(t0, CScale(CAdd(t1, t2), a))
        t4 == CMul(CSub(t1, t2), i_c)
        u0 == CSub(x[0], x[3])
        u1 == CSub(x[4], x[1])
        u2 == CSub(x[2], x[5])
        u3 == CSub(u0, CMul(CScale(CAdd(u1, u2), a), i_c))
        u4 == CMul(CSub(u1, u2), i_c)
    IN <<CAdd(CAdd(t0, t1), t2), CAdd(u3, CScale(u4, b)), CSub(t3, CScale(t4, b)),
         CAdd(CAdd(u0, u1), u2), CAdd(t3, CScale(t4, b)), CSub(u3, CScale(u4, b))>>

Kernel8(x) ==
    LET a == sab(1, 4)
        t0 == CSub(x[7], x[3])
        t1 == CSub(x[1], x[5])
        t2 == CAdd(x[0], x[4])
        t3 == CAdd(x[2], x[6])
        t4 == CScale(CAdd(t0, t1), a)
        u0 == CAdd(x[7], x[3])
        u1 == CAdd(x[1], x[5])
        u2 == CSub(x[0], x[4])
        u3 == CSub(x[2], x[6])
        u4 == CScale(CSub(t0, t1), a)
        t5 == CAdd(t2, t3)
        t6 == CAdd(u2, t4)
        t7 == CAdd(u0, u1)
        t8 == CMul(CSub(u4, u3), i_c)
        u5 == CSub(t2, t3)
        u6 == CSub(u2, t4)
        u7 == CMul(CSub(u0, u1), i_c)
        u8 == CMul(CAdd(u4, u3), i_c)
    IN <<CAdd(t5, t7), CAdd(t6, t8), CAdd(u5, u7), CAdd(u6, u8),
         CSub(t5, t7), CSub(u6, u8), CSub(u5, u7), CSub(t6, t8)>>

\* K::transform of DFTImproved<K, N>, as mod.rs:72-79 pairs K with N
Kernel(N, x) ==
    CASE N = 1 -> Kernel1(x)
      [] N = 2 -> Kernel2(x)
      [] N = 3 -> Kernel3(x)
      [] N = 4 -> Kernel4(x)
      [] N = 5 -> Kernel5(x)
      [] N = 6 -> Kernel6(x)
      [] N = 8 -> Kernel8(x)

(***************************************************************************)
(* Buffers.  A slice is the sequence of its elements, element i of the     *)
(* source at place i + 1.  A call ends in [ok |-> TRUE, out |-> the output *)
(* slice as the call leaves it] or, when an index or a slice start is out  *)
(* of range, in a panic.                                                   *)
(***************************************************************************)
Done(out) == [ok |-> TRUE, out |-> out]
Panicked == [ok |-> FALSE, out |-> <<>>]

\* vec![Complex32::default(); len]
Zeros(len) == [j \in 1..len |-> <<0, 0>>]

\* &buf[start..]
From(buf, start) == SubSeq(buf, start + 1, Len(buf))

\* stores into a buffer that is cleared first
StoreCleared(buf, idx, val) ==
    Force([j \in 1..Len(buf) |->
        LET hits == {k \in 1..Len(idx) : idx[k] = j - 1}
        IN IF hits = {} THEN <<0, 0>>
           ELSE val[CHOOSE k \in hits : \A l \in hits : l <= k]])

\* the stores buf[idx[1]] = val[1]; buf[idx[2]] = val[2]; ... in this order, all
\* indices being in range: the last store to a place stays
Store(buf, idx, val) ==
    Force([j \in 1..Len(buf) |->
        LET hits == {k \in 1..Len(idx) : idx[k] = j - 1}
        IN IF hits = {} THEN buf[j]
           ELSE val[CHOOSE k \in hits : \A l \in hits : l <= k]])

InRange(idx, buf) == \A k \in 1..Len(idx) : idx[k] < Len(buf)

(***************************************************************************)
(* improved.rs: DFTImproved, the gather/transform/scatter driver.          *)
(***************************************************************************)
\* a gather that reads the first transform into every lane
dosimd3FirstLane(L, N, input, istep, istep2, output, ostep, ostep2) ==
    LET in_idx == Force([c \in 1..(N * L) |-> ((c - 1) \div L) * istep])
        out_idx == Force([c \in 1..(N * L) |-> ((c - 1) \div L) * ostep + ((c - 1) % L) * ostep2])
    IN IF ~InRange(in_idx, input) \/ ~InRange(out_idx, output)
       THEN Panicked
       ELSE LET X == Force([b \in 0..(L - 1) |->
                        Kernel(N, [a \in 0..(N - 1) |-> input[in_idx[a * L + b + 1] + 1]])])
            IN Done(Store(output, out_idx,
                         [c \in 1..(N * L) |-> X[(c - 1) % L][((c - 1) \div L) + 1]]))

\* improved.rs:333-373: lane b of batch element a is cell a * L + b + 1
dosimd3(L, N, input, istep, istep2, output, ostep, ostep2) ==
    LET in_idx == Force([c \in 1..(N * L) |-> ((c - 1) \div L) * istep + ((c - 1) % L) * istep2])
        out_idx == Force([c \in 1..(N * L) |-> ((c - 1) \div L) * ostep + ((c - 1) % L) * ostep2])
    IN IF ~InRange(in_idx, input) \/ ~InRange(out_idx, output)
       THEN Panicked
       ELSE LET X == Force([b \in 0..(L - 1) |->
                        Kernel(N, [a \in 0..(N - 1) |-> input[in_idx[a * L + b + 1] + 1]])])
            IN Done(Store(output, out_idx,
                         [c \in 1..(N * L) |-> X[(c - 1) % L][((c - 1) \div L) + 1]]))

\* a driver without the loop of width 4
WidthNoFour(n_, num) == IF n_ + 8 <= num THEN 8 ELSE 1

\* the width of the batch that starts at transform n_: 8 while 8 transforms
\* remain, then 4 while 4 remain, then 1 (improved.rs:394-412)
Width(n_, num) == IF n_ + 8 <= num THEN 8 ELSE IF n_ + 4 <= num THEN 4 ELSE 1

\* improved.rs:394-412: the three loops of dosimd2, from transform n_ on
RECURSIVE dosimd2Loop(_, _, _, _, _, _, _, _, _)

\* improved.rs:395-396, 402-403, 409-410: after the batch of L transforms has
\* left r, the slices move on by L transforms and the loop goes on
dosimd2Advance(r, L, N, input, istep, istep2, output, ostep, ostep2, n_, num) ==
    IF ~r.ok \/ L * istep2 > Len(input) \/ L * ostep2 > Len(output)
    THEN Panicked
    ELSE LET rest == dosimd2Loop(N, From(input, L * istep2), istep, istep2,
                                 From(r.out, L * ostep2), ostep, ostep2,
                                 n_ + L, num)
         IN IF rest.ok THEN Done(SubSeq(r.out, 1, L * ostep2) \o rest.out)
            ELSE Panicked

dosimd2Loop(N, input, istep, istep2, output, ostep, ostep2, n_, num) ==
    IF n_ >= num THEN Done(output)
    ELSE dosimd2Advance(dosimd3(Width(n_, num), N, input, istep, istep2, output, ostep, ostep2),
                        Width(n_, num), N, input, istep, istep2, output, ostep, ostep2,
                        n_, num)

\* a driver that keeps the batch strides of a single transform
dosimd2Unforced(N, input, istep, istep2, output, ostep, ostep2, num) ==
    dosimd2Loop(N, input, istep, istep2, output, ostep, ostep2, 0, num)

\* improved.rs:376-413
dosimd2(N, input, istep, istep2, output, ostep, ostep2, num) ==
    IF num = 1
    THEN dosimd2Loop(N, input, istep, 0, output, ostep, 0, 0, num)
    ELSE dosimd2Loop(N, input, istep, istep2, output, ostep, ostep2, 0, num)

(***************************************************************************)
(* orig.rs: xform_many of the three plans.             A plan is a record   *)
(* of its fields, its sub-plans included; None is the absent sub-plan.     *)
(***************************************************************************)
None == [kind |-> "None", n |-> 0]

RECURSIVE xform_many(_, _, _, _, _, _, _, _)

\* orig.rs:82-97: transforms i, i + 1, ... of the p transforms of length q
RECURSIVE RadixRows(_, _, _, _, _, _, _, _, _)
RadixRows(plan, input, output, istep, istep2, ostep, ostep2, i, count) ==
    IF i >= count THEN Done(output)
    ELSE IF i * istep2 > Len(input) \/ i * ostep2 > Len(output) THEN Panicked
    ELSE LET r == xform_many(plan.dft_q, From(input, i * istep2), From(output, i * ostep2),
                             plan.p * istep, istep, ostep, ostep * plan.q, plan.p)
         IN IF ~r.ok THEN Panicked
            ELSE RadixRows(plan, input, SubSeq(output, 1, i * ostep2) \o r.out,
                           istep, istep2, ostep, ostep2, i + 1, count)

\* v *= wtable[b * q + a] for every cell <<i, b, a>> of S
RECURSIVE MulAll(_, _, _)
MulAll(plan, v, S) ==
    IF S = {} THEN v
    ELSE LET c == CHOOSE c \in S : TRUE
         IN MulAll(plan, CMul(v, plan.wtable[c[2] * plan.q + c[3] + 1]), S \ {c})

\* a twiddle stage that takes the output for contiguous: idx = b * q + a
RadixTwiddleUnit(plan, output, ostep, ostep2, count) ==
    LET cells == (0..(count - 1)) \X (1..(plan.p - 1)) \X (1..(plan.q - 1))
        idx(c) == c[1] * ostep2 + (c[2] * plan.q + c[3])
    IN IF \E c \in cells : idx(c) >= Len(output) THEN Panicked
       ELSE Done(Force([j \in 1..Len(output) |->
                    MulAll(plan, output[j], {c \in cells : idx(c) = j - 1})]))

\* orig.rs:102-110: output[out_base + idx] *= wtable[b * q + a]
RadixTwiddle(plan, output, ostep, ostep2, count) ==
    LET cells == (0..(count - 1)) \X (1..(plan.p - 1)) \X (1..(plan.q - 1))
        idx(c) == c[1] * ostep2 + ostep * (c[2] * plan.q + c[3])
    IN IF \E c \in cells : idx(c) >= Len(output) THEN Panicked
       ELSE Done(Force([j \in 1..Len(output) |->
                    MulAll(plan, output[j], {c \in cells : idx(c) = j - 1})]))

\* orig.rs:115-141: blocks i, i + 1, ... of the q transforms of length p
RECURSIVE RadixColumns(_, _, _, _, _, _)
RadixColumns(plan, output, ostep, ostep2, i, count) ==
    IF i >= count THEN Done(output)
    ELSE LET idx == Force([k \in 1..plan.n |-> i * ostep2 + (k - 1) * ostep])
         IN IF ~InRange(idx, output) THEN Panicked
            ELSE LET temp_col == Force([k \in 1..plan.n |-> output[idx[k] + 1]])
                     r == xform_many(plan.dft_p, temp_col, temp_col,
                                     plan.q, 1, plan.q, 1, plan.q)
                 IN IF ~r.ok THEN Panicked
                    ELSE RadixColumns(plan, Store(output, idx, r.out),
                                      ostep, ostep2, i + 1, count)

\* orig.rs:69-142
RadixMany(plan, input, output, istep, istep2, ostep, ostep2, count) ==
    LET rows == IF plan.dft_q.kind # "None"
                THEN RadixRows(plan, input, output, istep, istep2, ostep, ostep2, 0, count)
                ELSE Done(output)
    IN IF ~rows.ok THEN Panicked
       ELSE LET tw == RadixTwiddle(plan, rows.out, ostep, ostep2, count)
            IN IF ~tw.ok THEN Panicked
               ELSE IF plan.dft_p.kind # "None"
               THEN RadixColumns(plan, tw.out, ostep, ostep2, 0, count)
               ELSE tw

\* orig.rs:391-447: transform i, element k is cell i * n + k + 1
BluesteinMany(plan, input, output, istep, istep2, ostep, ostep2, count) ==
    LET n == plan.n
        nb == plan.nb
        cells == 1..(count * n)
        in_idx == Force([c \in cells |-> ((c - 1) % n) * istep + ((c - 1) \div n) * istep2])
        out_idx == Force([c \in cells |-> ((c - 1) % n) * ostep + ((c - 1) \div n) * ostep2])
        buf_idx == Force([c \in cells |-> ((c - 1) % n) + ((c - 1) \div n) * nb])
    IN IF ~InRange(in_idx, input) THEN Panicked
       ELSE LET slice1 == Store(Zeros(nb * count), buf_idx,
                                [c \in cells |-> CMul(input[in_idx[c] + 1],
                                                      plan.w0[((c - 1) % n) + 1])])
                fwd == xform_many(plan.dft_nb, slice1, Zeros(nb * count),
                                  1, nb, 1, nb, count)
            IN IF ~fwd.ok THEN Panicked
               ELSE LET slice2 == Force([j \in 1..(nb * count) |->
                                     CMul(Conj(fwd.out[j]), plan.w1[((j - 1) % nb) + 1])])
                        inv == xform_many(plan.dft_nb, slice2, slice1,
                                          1, nb, 1, nb, count)
                    IN IF ~inv.ok \/ ~InRange(out_idx, output) THEN Panicked
                       ELSE Done(Store(output, out_idx,
                                [c \in cells |-> CMul(Conj(inv.out[buf_idx[c] + 1]),
                                                      plan.w0[((c - 1) % n) + 1])]))

\* orig.rs:237-329: transform i, element k is cell i * (n - 1) + k + 1; buf is
\* kept as its three parts buf[..count], buf[count..split_idx] and buf[split_idx..]
RaderMany(plan, input, output, istep, istep2, ostep, ostep2, count) ==
    LET n_minus_1 == plan.n - 1
        cells == 1..(count * n_minus_1)
        t(c) == (c - 1) \div n_minus_1
        e(c) == (c - 1) % n_minus_1
        dc_idx == Force([i \in 1..count |-> (i - 1) * istep2])
        in_idx == Force([c \in cells |->
                      t(c) * istep2 + Powermod(plan.g, e(c), plan.n) * istep])
        dc_out == Force([i \in 1..count |-> (i - 1) * ostep2])
        out_idx == Force([c \in cells |->
                       t(c) * ostep2 + Powermod(plan.g_inv, e(c), plan.n) * ostep])
    IN IF ~InRange(dc_idx, input) \/ ~InRange(in_idx, input) THEN Panicked
       ELSE LET dc == Force([i \in 1..count |-> input[dc_idx[i] + 1]])
                lower == Force([c \in cells |-> input[in_idx[c] + 1]])
                fwd == xform_many(plan.dft_n1, lower, Zeros(count * n_minus_1),
                                  1, n_minus_1, 1, n_minus_1, count)
            IN IF ~fwd.ok \/ (count > 0 /\ n_minus_1 = 0) \/ ~InRange(dc_out, output)
               THEN Panicked
               ELSE LET dc_term == Store(output, dc_out,
                                     [i \in 1..count |->
                                         CAdd(dc[i], fwd.out[n_minus_1 * (i - 1) + 1])])
                        upper == Force([c \in cells |->
                                    Conj(CAdd(CMul(fwd.out[c], plan.omega[e(c) + 1]),
                                              IF e(c) = 0 THEN dc[t(c) + 1] ELSE <<0, 0>>))])
                        inv == xform_many(plan.dft_n1, upper, lower,
                                          1, n_minus_1, 1, n_minus_1, count)
                    IN IF ~inv.ok \/ ~InRange(out_idx, dc_term) THEN Panicked
                       ELSE Done(Store(dc_term, out_idx,
                                       [c \in cells |-> Conj(inv.out[c])]))

\* the xform_many of the plan: improved.rs:429-440, orig.rs:69, orig.rs:237,
\* orig.rs:391
xform_many(plan, input, output, istep, istep2, ostep, ostep2, count) ==
    CASE plan.kind = "Improved" ->
            dosimd2(plan.n, input, istep, istep2, output, ostep, ostep2, count)
      [] plan.kind = "RadixP" ->
            RadixMany(plan, input, output, istep, istep2, ostep, ostep2, count)
      [] plan.kind = "Bluestein" ->
            BluesteinMany(plan, input, output, istep, istep2, ostep, ostep2, count)
      [] plan.kind = "Rader" ->
            RaderMany(plan, input, output, istep, istep2, ostep, ostep2, count)

\* mod.rs:16-18
xform(plan, input, output) == xform_many(plan, input, output, 1, 0, 1, 0, 1)

\* an xform_inplace whose temporary is not a copy of the buffer
xform_inplaceNoCopy(plan, buffer) ==
    xform_many(plan, Zeros(Len(buffer)), buffer, 1, 0, 1, 0, 1)

\* mod.rs:37-40: let temp = buffer.to_vec(); self.xform_many(&temp, buffer, 1, 0, 1, 0, 1)
xform_inplace(plan, buffer) == xform_many(plan, buffer, buffer, 1, 0, 1, 0, 1)

(***************************************************************************)
(* The plan find_dft(n) returns when no plan is cached, with its tables:   *)
(* mod.rs:72-93 and the constructors of orig.rs.  The sizes are below      *)
(* WarmLimit, so every get_factors_all is answered from the warm cache     *)
(* and leaves PRIME_LORE as it is.                                         *)
(***************************************************************************)
RECURSIVE find_dft(_)

\* orig.rs:24-55
DFTRadixNew(n) ==
    LET p == RadixP(n, GetFactorsAll(PRIME_LORE, n).factors)
        q == RadixQ(n, p)
    IN [kind |-> "RadixP", n |-> n, p |-> p, q |-> q,
        wtable |-> Force([a \in 1..n |-> w(((a - 1) % q) * ((a - 1) \div q), n)]),
        dft_p |-> IF p > 1 THEN find_dft(p) ELSE None,
        dft_q |-> IF q > 1 THEN find_dft(q) ELSE None]

\* a mirror that pushes w1[1], ..., w1[n - 1] behind the table
MirrorPush(w1, k, n, nb) == w1 \o SubSeq(w1, k + 1, n)

\* orig.rs:360-362: for k in from..n { w1[nb - k] = w1[k] }
RECURSIVE Mirror(_, _, _, _)
Mirror(w1, k, n, nb) ==
    IF k >= n THEN w1 ELSE Mirror([w1 EXCEPT ![nb - k + 1] = w1[k + 1]], k + 1, n, nb)

\* orig.rs:344-377
DFTBluesteinWith(n, nb, dft_nb) ==
    LET w0 == Force([k \in 1..n |-> w((k - 1) * (k - 1), 2 * n)])
        w1 == Mirror(Force([j \in 1..nb |-> IF j <= n THEN CScale(w0[j], RInv(nb))
                                            ELSE <<0, 0>>]), 1, n, nb)
    IN [kind |-> "Bluestein", n |-> n, nb |-> nb, w0 |-> w0,
        w1 |-> xform_inplace(dft_nb, w1).out, dft_nb |-> dft_nb]

\* orig.rs:367: let dft_nb = find_dft(nb)
DFTBluesteinNew(n, nb) == DFTBluesteinWith(n, nb, find_dft(nb))

\* orig.rs:157-211
DFTRaderWith(n, dft_n1) ==
    LET g == FindGenerator(2, n, GetFactorsAll(PRIME_LORE, n - 1).factors)
        g_inv == Powermod(g, n - 2, n)
        omega == xform_inplace(dft_n1,
                     Force([i \in 1..(n - 1) |-> w(Powermod(g_inv, i - 1, n), n)])).out
    IN [kind |-> "Rader", n |-> n, g |-> g, g_inv |-> g_inv,
        omega |-> Force([i \in 1..(n - 1) |-> CScale(omega[i], RInv(n - 1))]),
        dft_n1 |-> dft_n1]

\* orig.rs:193: let dft_n1 = find_dft(n - 1)
DFTRaderNew(n) == DFTRaderWith(n, find_dft(n - 1))

\* mod.rs:72-93; the sizes 1 .. MaxXform never come to DFTRader::new, which
\* is chosen for a size without prime factors only
find_dft(n) ==
    IF n \in KernelSizes THEN [kind |-> "Improved", n |-> n]
    ELSE IF GetFactorsAll(PRIME_LORE, n).count >= 2 THEN DFTRadixNew(n)
    ELSE IF GetFactorsAll(PRIME_LORE, n).count = 0 THEN DFTRaderNew(n)
    ELSE DFTBluesteinNew(n, NextPowerOfTwo(2 * n - 1))

(***************************************************************************)
(* SpecXform: let plan = find_dft(n) for a size n in 1 .. MaxXform, then   *)
(* plan.xform(&x, &mut y) for a vector x of n numbers, at most MaxTerms of *)
(* them 1 or i and the others 0, and a buffer y of n equal numbers.        *)
(***************************************************************************)
Units == {<<1, 0>>, <<0, 1>>}

Inputs(n) ==
    UNION {{[j \in 1..n |-> IF j \in S THEN v[j] ELSE <<0, 0>>] : v \in [S -> Units]} :
              S \in {T \in SUBSET (1..n) : Cardinality(T) <= MaxTerms}}

Fills == {<<0, 0>>, <<1, 0>>}

InitXform ==
    /\ PRIME_LORE = PrimeLoreNew
    /\ asked = <<>>
    /\ InitPlans
    /\ XformIdle(Field)

GetPlan(n) ==
    /\ xplan.kind = "None"
    /\ xplan' = find_dft(n)
    /\ UNCHANGED <<fld, xin, xout, xbuf, mcall, mout>>
    /\ UNCHANGED <<parVars, kernVars>>
    /\ UNCHANGED <<loreVars, planVars>>

Xform(x, y) ==
    /\ xplan.kind # "None"
    /\ xin = <<>>
    /\ xin' = x
    /\ xout' = xform(xplan, x, y)
    /\ UNCHANGED <<fld, xplan, xbuf, mcall, mout>>
    /\ UNCHANGED <<parVars, kernVars>>
    /\ UNCHANGED <<loreVars, planVars>>

\* plan.xform_inplace(&mut buf) on a buffer that holds the x of the xform call
XformInplace ==
    /\ xin # <<>>
    /\ xbuf = Done(<<>>)
    /\ xbuf' = xform_inplace(xplan, xin)
    /\ UNCHANGED <<fld, xplan, xin, xout, mcall, mout>>
    /\ UNCHANGED <<parVars, kernVars>>
    /\ UNCHANGED <<loreVars, planVars>>

NextXform ==
    \/ \E n \in 1..MaxXform : GetPlan(n)
    \/ \E x \in Inputs(xplan.n), fill \in Fills : Xform(x, [j \in 1..xplan.n |-> fill])
    \/ XformInplace

SpecXform == InitXform /\ [][NextXform]_vars

(***************************************************************************)
(* SpecMany: a plan, from find_dft(n) or from DFTRader::new(n) for a prime *)
(* n, then one call plan.xform_many(&input, &mut output, istep, istep2,    *)
(* ostep, ostep2, count), for count in 1 .. MaxCount transforms laid out   *)
(* one after another, interleaved, in padded rows or at every second       *)
(* place, on buffers that end at the last index the strides reach or       *)
(* have room after it.                                                     *)
(***************************************************************************)
\* the primes DFTRader::new is called with
RaderSizes == {n \in 3..MaxXform : IsPrimeNumber(n)}

\* <<step, step2>> for count transforms of length N
Layouts(N, count) == {<<1, N>>, <<count, 1>>, <<1, N + 1>>, <<2, 2 * N>>}

\* one more than the last index the strides reach
Reach(N, step, step2, count) == 1 + (N - 1) * step + (count - 1) * step2

\* the lengths of the buffers: to the last index reached, or with room behind
Lengths(N, step, step2, count) ==
    {Reach(N, step, step2, count), Reach(N, step, step2, count) + N * step + step2}

\* what the input holds
Contents(len) ==
    {[j \in 1..len |-> <<j, 2 * j + 1>>], [j \in 1..len |-> <<(j * j) % 7, j % 3>>]}

\* what the output holds before the call: a different number at every place
Marks(len) == [j \in 1..len |-> <<1000 + j, 3000 + j>>]

GetRader(n) ==
    /\ xplan.kind = "None"
    /\ xplan' = DFTRaderNew(n)
    /\ UNCHANGED <<fld, xin, xout, xbuf, mcall, mout>>
    /\ UNCHANGED <<parVars, kernVars>>
    /\ UNCHANGED <<loreVars, planVars>>

XformMany(input, output, istep, istep2, ostep, ostep2, count) ==
    /\ xplan.kind # "None"
    /\ mcall = NoCall
    /\ mcall' = [input |-> input, output |-> output, istep |-> istep, istep2 |-> istep2,
                 ostep |-> ostep, ostep2 |-> ostep2, count |-> count]
    /\ mout' = xform_many(xplan, input, output, istep, istep2, ostep, ostep2, count)
    /\ UNCHANGED <<fld, xplan, xin, xout, xbuf>>
    /\ UNCHANGED <<parVars, kernVars>>
    /\ UNCHANGED <<loreVars, planVars>>

NextMany ==
    \/ \E n \in 1..MaxXform : GetPlan(n)
    \/ \E n \in RaderSizes : GetRader(n)
    \/ \E count \in 1..MaxCount :
          \E li \in Layouts(xplan.n, count), lo \in Layouts(xplan.n, count) :
             \E ilen \in Lengths(xplan.n, li[1], li[2], count),
                olen \in Lengths(xplan.n, lo[1], lo[2], count) :
                \E input \in Contents(ilen) :
                   XformMany(input, Marks(olen), li[1], li[2], lo[1], lo[2], count)

SpecMany == InitXform /\ [][NextMany]_vars

(***************************************************************************)
(* SpecPar: the threads call xform_many on one plan at the same time, each *)
(* with its own input and its own output, ParCount contiguous transforms   *)
(* per call.  A call goes through the stages of its xform_many one step at *)
(* a time; between the stages it holds its output and, for the plans of    *)
(* orig.rs, a scratch vector: temp_col of DFTRadix (orig.rs:119), buf of   *)
(* DFTRader (orig.rs:252) and of DFTBluestein (orig.rs:404).  A call to a  *)
(* sub-plan is one step.                                                   *)
(***************************************************************************)
\* a scratch vector that is kept with the plan, one for all calls
ScratchInPlan(t) == 1

\* the scratch vector of the call of thread t: allocated in the call
\* (vec![Complex32::default(); _]), so every call has its own
ScratchOf(t) == t

\* the first stage of the plan's xform_many
FirstPc(plan) ==
    CASE plan.kind = "Improved" -> "run"
      [] plan.kind = "RadixP" -> "rows"
      [] plan.kind = "Bluestein" -> "modulate"
      [] plan.kind = "Rader" -> "permute"

\* the call after a stage: where it goes on, its output, its scratch vector
After(pc, out, buf, i) == [pc |-> pc, out |-> out, buf |-> buf, i |-> i]

\* the call after a stage that has left r: its output is r.out, or it panicked
OutputAfter(r, pc, st, buf) ==
    IF r.ok THEN After(pc, r.out, buf, 0) ELSE After("panicked", st.out, buf, 0)

\* the call after a sub-plan has left r: its scratch vector is r.out between
\* the parts left and right, or it panicked
ScratchAfter(r, pc, st, buf, left, right) ==
    IF r.ok THEN After(pc, st.out, left \o r.out \o right, 0)
    ELSE After("panicked", st.out, buf, 0)

\* improved.rs:429-440: the driver has no scratch vector
ImprovedStage(plan, st, buf) ==
    OutputAfter(dosimd2(plan.n, st.c.input, st.c.istep, st.c.istep2, st.out,
                   st.c.ostep, st.c.ostep2, st.c.count),
           "done", st, buf)

\* orig.rs:137-139: temp_col, as dp has left it in r, goes back to block i
ColumnsBack(r, idx, st, buf) ==
    IF r.ok
    THEN After(IF st.i + 1 < st.c.count THEN "copy" ELSE "done",
               Store(st.out, idx, r.out), r.out, st.i + 1)
    ELSE After("panicked", st.out, buf, st.i)

\* orig.rs:69-142: the first stage (82-97), the twiddles (102-110), and for
\* every block i the copy into temp_col (119-126) and its transform and the
\* copy back (131-139)
RadixStage(plan, st, buf) ==
    LET c == st.c
        idx == Force([k \in 1..plan.n |-> st.i * c.ostep2 + (k - 1) * c.ostep])
    IN CASE st.pc = "rows" ->
              OutputAfter(IF plan.dft_q.kind # "None"
                     THEN RadixRows(plan, c.input, st.out, c.istep, c.istep2,
                                    c.ostep, c.ostep2, 0, c.count)
                     ELSE Done(st.out),
                     "twiddle", st, buf)
         [] st.pc = "twiddle" ->
              OutputAfter(RadixTwiddle(plan, st.out, c.ostep, c.ostep2, c.count),
                     IF plan.dft_p.kind # "None" THEN "copy" ELSE "done", st, buf)
         [] st.pc = "copy" ->
              IF InRange(idx, st.out)
              THEN After("columns", st.out, Force([k \in 1..plan.n |-> st.out[idx[k] + 1]]), st.i)
              ELSE After("panicked", st.out, buf, st.i)
         [] st.pc = "columns" ->
              ColumnsBack(xform_many(plan.dft_p, buf, buf, plan.q, 1, plan.q, 1, plan.q),
                          idx, st, buf)

\* orig.rs:391-447: buf is slice1 followed by slice2; the chirp (410-414), the
\* forward DFT (419-420), the kernel (425-430), the inverse DFT (435-436) and
\* the write-back (441-446)
BluesteinStage(plan, st, buf) ==
    LET c == st.c
        n == plan.n
        nb == plan.nb
        half == nb * c.count
        cells == 1..(c.count * n)
        in_idx == Force([k \in cells |-> ((k - 1) % n) * c.istep + ((k - 1) \div n) * c.istep2])
        out_idx == Force([k \in cells |-> ((k - 1) % n) * c.ostep + ((k - 1) \div n) * c.ostep2])
        buf_idx == Force([k \in cells |-> ((k - 1) % n) + ((k - 1) \div n) * nb])
        slice1 == SubSeq(buf, 1, half)
        slice2 == SubSeq(buf, half + 1, 2 * half)
    IN CASE st.pc = "modulate" ->
              IF InRange(in_idx, c.input)
              THEN After("forward", st.out,
                         Store(Zeros(2 * half), buf_idx,
                               [k \in cells |-> CMul(c.input[in_idx[k] + 1],
                                                     plan.w0[((k - 1) % n) + 1])]), 0)
              ELSE After("panicked", st.out, buf, 0)
         [] st.pc = "forward" ->
              ScratchAfter(xform_many(plan.dft_nb, slice1, slice2, 1, nb, 1, nb, c.count),
                      "multiply", st, buf, slice1, <<>>)
         [] st.pc = "multiply" ->
              After("inverse", st.out,
                    slice1 \o [j \in 1..half |-> CMul(Conj(slice2[j]),
                                                       plan.w1[((j - 1) % nb) + 1])], 0)
         [] st.pc = "inverse" ->
              ScratchAfter(xform_many(plan.dft_nb, slice2, slice1, 1, nb, 1, nb, c.count),
                      "final", st, buf, <<>>, slice2)
         [] st.pc = "final" ->
              IF InRange(out_idx, st.out)
              THEN After("done",
                         Store(st.out, out_idx,
                               [k \in cells |-> CMul(Conj(slice1[buf_idx[k] + 1]),
                                                     plan.w0[((k - 1) % n) + 1])]), buf, 0)
              ELSE After("panicked", st.out, buf, 0)

\* orig.rs:237-329: buf is buf[..count], the lower half and the upper half;
\* the permutation (257-267), the forward DFT (275-283), the kernel and the
\* DC terms (288-300), the inverse DFT (307-315) and the write-back (320-328)
RaderStage(plan, st, buf) ==
    LET c == st.c
        n_minus_1 == plan.n - 1
        cells == 1..(c.count * n_minus_1)
        t(k) == (k - 1) \div n_minus_1
        e(k) == (k - 1) % n_minus_1
        dc_idx == Force([i \in 1..c.count |-> (i - 1) * c.istep2])
        in_idx == Force([k \in cells |->
                      t(k) * c.istep2 + Powermod(plan.g, e(k), plan.n) * c.istep])
        dc_out == Force([i \in 1..c.count |-> (i - 1) * c.ostep2])
        out_idx == Force([k \in cells |->
                       t(k) * c.ostep2 + Powermod(plan.g_inv, e(k), plan.n) * c.ostep])
        split_idx == c.count + n_minus_1 * c.count
        dc == SubSeq(buf, 1, c.count)
        lower == SubSeq(buf, c.count + 1, split_idx)
        upper == SubSeq(buf, split_idx + 1, Len(buf))
    IN CASE st.pc = "permute" ->
              IF InRange(dc_idx, c.input) /\ InRange(in_idx, c.input)
              THEN After("forward", st.out,
                         [i \in 1..c.count |-> c.input[dc_idx[i] + 1]]
                            \o [k \in cells |-> c.input[in_idx[k] + 1]]
                            \o Zeros(c.count * n_minus_1), 0)
              ELSE After("panicked", st.out, buf, 0)
         [] st.pc = "forward" ->
              ScratchAfter(xform_many(plan.dft_n1, lower, upper, 1, n_minus_1, 1, n_minus_1,
                                 c.count),
                      "multiply", st, buf, dc \o lower, <<>>)
         [] st.pc = "multiply" ->
              IF InRange(dc_out, st.out)
              THEN After("inverse",
                         Store(st.out, dc_out,
                               [i \in 1..c.count |-> CAdd(dc[i], upper[n_minus_1 * (i - 1) + 1])]),
                         dc \o lower
                            \o [k \in cells |->
                                   Conj(CAdd(CMul(upper[k], plan.omega[e(k) + 1]),
                                             IF e(k) = 0 THEN dc[t(k) + 1] ELSE <<0, 0>>))], 0)
              ELSE After("panicked", st.out, buf, 0)
         [] st.pc = "inverse" ->
              ScratchAfter(xform_many(plan.dft_n1, upper, lower, 1, n_minus_1, 1, n_minus_1,
                                 c.count),
                      "final", st, buf, dc, upper)
         [] st.pc = "final" ->
              IF InRange(out_idx, st.out)
              THEN After("done",
                         Store(st.out, out_idx, [k \in cells |-> Conj(lower[k])]), buf, 0)
              ELSE After("panicked", st.out, buf, 0)

\* the next stage of the call st of the plan, on the scratch vector buf
Stage(plan, st, buf) ==
    CASE plan.kind = "Improved" -> ImprovedStage(plan, st, buf)
      [] plan.kind = "RadixP" -> RadixStage(plan, st, buf)
      [] plan.kind = "Bluestein" -> BluesteinStage(plan, st, buf)
      [] plan.kind = "Rader" -> RaderStage(plan, st, buf)

\* thread t is inside xform_many
Running(t) == pstate[t].pc \notin {"idle", "done", "panicked"}

\* thread t calls plan.xform_many(&input, &mut output, 1, N, 1, N, ParCount)
ParCall(t, input, output) ==
    /\ xplan.kind # "None"
    /\ pstate[t].pc = "idle"
    /\ pstate' = [pstate EXCEPT ![t] =
                     [pc |-> FirstPc(xplan),
                      c |-> [input |-> input, istep |-> 1, istep2 |-> xplan.n,
                             ostep |-> 1, ostep2 |-> xplan.n, count |-> ParCount],
                      out |-> output, i |-> 0, met |-> FALSE]]
    /\ UNCHANGED <<fld, xplan, xin, xout, xbuf, mcall, mout, scratch, kernVars>>
    /\ UNCHANGED <<loreVars, planVars>>

\* the call of thread t goes on as the stage has left it in r
Resume(t, r) ==
    /\ pstate' = [pstate EXCEPT ![t] =
                     [@ EXCEPT !.pc = r.pc, !.out = r.out, !.i = r.i,
                               !.met = @ \/ \E u \in Threads \ {t} : Running(u)]]
    /\ scratch' = [scratch EXCEPT ![ScratchOf(t)] = r.buf]

\* thread t runs the next stage of its call
ParStep(t) ==
    /\ Running(t)
    /\ Resume(t, Stage(xplan, pstate[t], scratch[ScratchOf(t)]))
    /\ UNCHANGED <<fld, xplan, xin, xout, xbuf, mcall, mout, kernVars>>
    /\ UNCHANGED <<loreVars, planVars>>

NextPar ==
    \/ \E n \in 1..MaxXform : GetPlan(n)
    \/ \E n \in RaderSizes : GetRader(n)
    \/ \E t \in Threads : \E input \in Contents(xplan.n * ParCount) :
          ParCall(t, input, Marks(xplan.n * ParCount))
    \/ \E t \in Threads : ParStep(t)

SpecPar == InitXform /\ [][NextPar]_vars

(***************************************************************************)
(* SpecKernel: one call K::transform::<L>(&mut x, &mut X) of the kernel of *)
(* a size N on batches of L lanes.  x[a] and X[k] are BatchComplex<L>: the *)
(* functions on the lanes 0 .. L - 1 here.  Add, Sub and Mul of            *)
(* BatchComplex (improved.rs:43-123) work on Simd<f32, L> and so on every  *)
(* lane by itself.                                                         *)
(***************************************************************************)
\* the lane counts dosimd2 instantiates dosimd3 and K::transform with
LaneWidths == {1, 4, 8}

\* K::transform::<L> of the kernel of size N
KernelTransform(N, L, x) ==
    LET X == Force([b \in 0..(L - 1) |-> Kernel(N, [a \in 0..(N - 1) |-> x[a][b]])])
    IN Force([k \in 0..(N - 1) |-> Force([b \in 0..(L - 1) |-> X[b][k + 1]])])

\* N ones
Ones(N) == [j \in 1..N |-> <<1, 0>>]

\* batches of L lanes: lane 0 holds the vector v, lane b holds v turned by b
\* places with b added to its first number
Batch(N, L, v) ==
    Force([a \in 0..(N - 1) |->
        Force([b \in 0..(L - 1) |->
            CAdd(v[((a + b) % N) + 1], IF a = 0 THEN <<b, 0>> ELSE <<0, 0>>)])])

\* the vectors of length N with one number 1 or i and the others 0
Impulses(N) ==
    {[j \in 1..N |-> IF j = k THEN u ELSE <<0, 0>>] : k \in 1..N, u \in Units}

\* one lane is given every vector of Inputs(N); the lanes of a wider batch
\* start from an impulse or from all ones and differ from each other
Batches(N, L) ==
    {Batch(N, L, v) : v \in (IF L = 1 THEN Inputs(N) ELSE Impulses(N)) \cup {Ones(N)}}

Transform(N, L, x) ==
    /\ kin = NoBatch
    /\ kin' = [N |-> N, L |-> L, x |-> x]
    /\ kout' = KernelTransform(N, L, x)
    /\ UNCHANGED <<fld, xplan, xin, xout, xbuf, mcall, mout, parVars, drv, blu, rad>>
    /\ UNCHANGED <<loreVars, planVars>>

NextKernel ==
    \E N \in KernelSizes, L \in LaneWidths : \E x \in Batches(N, L) : Transform(N, L, x)

SpecKernel == InitXform /\ [][NextKernel]_vars

(***************************************************************************)
(* SpecRadix: let plan = DFTRadix::new(n) for a composite size n, then one *)
(* call plan.xform_many(...) on the layouts and buffers of SpecMany.  The  *)
(* sub-plans come from find_dft(p) and find_dft(q) as in orig.rs:44-45; p  *)
(* is the least prime factor, so the sizes 6 = 2 * 3, 8 = 2 * 4,           *)
(* 10 = 2 * 5 and 12 = 2 * 6 have p # q.                                   *)
(***************************************************************************)
\* the sizes with two or more prime factors
RadixSizes == {n \in 4..MaxRadix : GetFactorsAll(PrimeLoreNew, n).count >= 2}

NewRadix(n) ==
    /\ xplan.kind = "None"
    /\ xplan' = DFTRadixNew(n)
    /\ UNCHANGED <<fld, xin, xout, xbuf, mcall, mout>>
    /\ UNCHANGED <<parVars, kernVars>>
    /\ UNCHANGED <<loreVars, planVars>>

NextRadix ==
    \/ \E n \in RadixSizes : NewRadix(n)
    \/ \E count \in 1..MaxCount :
          \E li \in Layouts(xplan.n, count), lo \in Layouts(xplan.n, count) :
             \E ilen \in Lengths(xplan.n, li[1], li[2], count),
                olen \in Lengths(xplan.n, lo[1], lo[2], count) :
                \E input \in Contents(ilen) :
                   XformMany(input, Marks(olen), li[1], li[2], lo[1], lo[2], count)

SpecRadix == InitXform /\ [][NextRadix]_vars

(***************************************************************************)
(* SpecDriver: one call dosimd2(input, istep, istep2, output, ostep,       *)
(* ostep2, num) of DFTImproved<K, N> (improved.rs:376-413), one action for *)
(* every turn of its three loops.  The slices input and output are kept as *)
(* the buffers of the caller and the offsets ioff and ooff at which the    *)
(* slices begin.                                                           *)
(***************************************************************************)
\* the kernel sizes the driver is run with
DriverSizes == {1, 2, 3, 5}

\* improved.rs:376-391
DriverCall(N, input, istep, istep2, output, ostep, ostep2, num) ==
    /\ drv.pc = "idle"
    /\ drv' = [pc |-> "loop", N |-> N, num |-> num, input |-> input,
               istep |-> istep, istep2 |-> istep2, ostep |-> ostep, ostep2 |-> ostep2,
               step2 |-> IF num = 1 THEN <<0, 0>> ELSE <<istep2, ostep2>>,
               n |-> 0, ioff |-> 0, ooff |-> 0, output |-> output, log |-> <<>>]
    /\ UNCHANGED <<fld, xplan, xin, xout, xbuf, mcall, mout, parVars, kin, kout, blu, rad>>
    /\ UNCHANGED <<loreVars, planVars>>

\* the batch of L transforms r has run on the slices: improved.rs:395-397,
\* 402-404, 409-411
DriverAdvance(r, L) ==
    IF ~r.ok \/ drv.ioff + L * drv.step2[1] > Len(drv.input)
             \/ drv.ooff + L * drv.step2[2] > Len(drv.output)
    THEN [drv EXCEPT !.pc = "panicked",
                     !.output = IF r.ok THEN SubSeq(drv.output, 1, drv.ooff) \o r.out
                                ELSE drv.output,
                     !.log = IF r.ok THEN Append(drv.log, [t |-> drv.n, L |-> L,
                                                  ioff |-> drv.ioff, ooff |-> drv.ooff])
                             ELSE drv.log]
    ELSE [drv EXCEPT !.n = drv.n + L,
                     !.ioff = drv.ioff + L * drv.step2[1],
                     !.ooff = drv.ooff + L * drv.step2[2],
                     !.output = SubSeq(drv.output, 1, drv.ooff) \o r.out,
                     !.log = Append(drv.log, [t |-> drv.n, L |-> L,
                                              ioff |-> drv.ioff, ooff |-> drv.ooff])]

\* one turn of the loop of width L: improved.rs:393-398 (8), 400-405 (4),
\* 407-412 (1)
DriverTurn(L) ==
    /\ drv.pc = "loop"
    /\ drv.n < drv.num
    /\ Width(drv.n, drv.num) = L
    /\ drv' = DriverAdvance(dosimd3(L, drv.N, From(drv.input, drv.ioff), drv.istep,
                                    drv.step2[1], From(drv.output, drv.ooff), drv.ostep,
                                    drv.step2[2]), L)
    /\ UNCHANGED <<fld, xplan, xin, xout, xbuf, mcall, mout, parVars, kin, kout, blu, rad>>
    /\ UNCHANGED <<loreVars, planVars>>

\* improved.rs:407, 413: no transform is left
DriverReturn ==
    /\ drv.pc = "loop"
    /\ drv.n >= drv.num
    /\ drv' = [drv EXCEPT !.pc = "done"]
    /\ UNCHANGED <<fld, xplan, xin, xout, xbuf, mcall, mout, parVars, kin, kout, blu, rad>>
    /\ UNCHANGED <<loreVars, planVars>>

NextDriver ==
    \/ \E N \in DriverSizes, num \in 0..MaxBatch :
          \E li \in Layouts(N, num), lo \in Layouts(N, num) :
             \E ilen \in Lengths(N, li[1], li[2], num),
                olen \in Lengths(N, lo[1], lo[2], num) :
                \E input \in Contents(ilen) :
                   DriverCall(N, input, li[1], li[2], Marks(olen), lo[1], lo[2], num)
    \/ DriverTurn(8)
    \/ DriverTurn(4)
    \/ DriverTurn(1)
    \/ DriverReturn

SpecDriver == InitXform /\ [][NextDriver]_vars

(***************************************************************************)
(* SpecChirp: one call DFTBluestein::new(n, nb) (orig.rs:344-377), one     *)
(* action for every turn of the two loops that fill w1 and one for the     *)
(* transform of w1.  find_dft passes the least power of two nb >= 2n - 1   *)
(* (mod.rs:86-90); the constructor is public and takes any nb, so nb is    *)
(* drawn from the powers of two the field has roots of unity for.          *)
(***************************************************************************)
ChirpLengths == {1, 2, 4, 8, 16}

\* orig.rs:358: w0[k] / (nb as f32)
ChirpScale(x, nb) == CScale(x, RInv(nb))

\* an index one below the mirrored one
MirrorTargetBelow(nb, k) == nb - k - 1

\* orig.rs:361: the index nb - k
MirrorTarget(nb, k) == nb - k

\* orig.rs:348-356
ChirpNew(n, nb) ==
    /\ blu.pc = "idle"
    /\ blu' = [pc |-> "fill", n |-> n, nb |-> nb, k |-> 0,
               w0 |-> Force([k \in 1..n |-> w((k - 1) * (k - 1), 2 * n)]),
               w1 |-> Zeros(nb), writes |-> <<>>]
    /\ UNCHANGED <<fld, xplan, xin, xout, xbuf, mcall, mout, parVars, kin, kout, drv, rad>>
    /\ UNCHANGED <<loreVars, planVars>>

\* orig.rs:357-359: one turn of for k in 0..n { w1[k] = w0[k] / nb }; after
\* the last turn the second loop begins at k = 1
ChirpFill ==
    /\ blu.pc = "fill"
    /\ blu' = IF blu.k >= blu.nb THEN [blu EXCEPT !.pc = "panicked"]
              ELSE [blu EXCEPT
                      !.w1[blu.k + 1] = ChirpScale(blu.w0[blu.k + 1], blu.nb),
                      !.writes = Append(blu.writes,
                                    <<blu.k, ChirpScale(blu.w0[blu.k + 1], blu.nb)>>),
                      !.k = IF blu.k + 1 < blu.n THEN blu.k + 1 ELSE 1,
                      !.pc = IF blu.k + 1 < blu.n THEN "fill" ELSE "mirror"]
    /\ UNCHANGED <<fld, xplan, xin, xout, xbuf, mcall, mout, parVars, kin, kout, drv, rad>>
    /\ UNCHANGED <<loreVars, planVars>>

\* orig.rs:360-362: one turn of for k in 1..n { w1[nb - k] = w1[k] }
ChirpMirror ==
    /\ blu.pc = "mirror"
    /\ blu.k < blu.n
    /\ blu' = [blu EXCEPT
                 !.w1[MirrorTarget(blu.nb, blu.k) + 1] = blu.w1[blu.k + 1],
                 !.writes = Append(blu.writes,
                               <<MirrorTarget(blu.nb, blu.k), blu.w1[blu.k + 1]>>),
                 !.k = blu.k + 1]
    /\ UNCHANGED <<fld, xplan, xin, xout, xbuf, mcall, mout, parVars, kin, kout, drv, rad>>
    /\ UNCHANGED <<loreVars, planVars>>

\* orig.rs:370-376 with the transformed w1
ChirpPlan(c, dft_nb) ==
    [kind |-> "Bluestein", n |-> c.n, nb |-> c.nb, w0 |-> c.w0,
     w1 |-> xform_inplace(dft_nb, c.w1).out, dft_nb |-> dft_nb]

\* orig.rs:367-376: blu.w1 stays the table as it was before the transform
ChirpTransform ==
    /\ blu.pc = "mirror"
    /\ blu.k >= blu.n
    /\ blu' = [blu EXCEPT !.pc = "done"]
    /\ xplan' = ChirpPlan(blu, find_dft(blu.nb))
    /\ UNCHANGED <<fld, xin, xout, xbuf, mcall, mout, parVars, kin, kout, drv, rad>>
    /\ UNCHANGED <<loreVars, planVars>>

NextChirp ==
    \/ \E n \in 1..MaxChirp, nb \in ChirpLengths : ChirpNew(n, nb)
    \/ ChirpFill
    \/ ChirpMirror
    \/ ChirpTransform

SpecChirp == InitXform /\ [][NextChirp]_vars

(***************************************************************************)
(* SpecRader: let plan = DFTRader::new(n) for a prime n, then one call     *)
(* plan.xform_many(...) (orig.rs:237-329) on the layouts and buffers of    *)
(* SpecMany, one action for every turn of its three loops over the         *)
(* transforms and one for each of the two sub-plan calls.  buf is one      *)
(* vector here, indexed as the code indexes it.                            *)
(***************************************************************************)
\* orig.rs:263, 323: let buf_idx = count + k + i * n_minus_1
PermuteIndex(count, k, i, n_minus_1) == count + k + i * n_minus_1

\* an index into the lower half
KernelIndexLower(count, k, i, n_minus_1) == count + k + n_minus_1 * i

\* orig.rs:289, 293: let idx_src = count + k + n_minus_1 * (i + count)
KernelIndex(count, k, i, n_minus_1) == count + k + n_minus_1 * (i + count)

\* orig.rs:273: let split_idx = count + n_minus_1 * count
SplitIdx(count, n_minus_1) == count + n_minus_1 * count

\* the loop over the transforms goes on with i + 1, or ends and stage pc begins
NextTurn(r, pc) ==
    IF r.i + 1 < r.c.count THEN [r EXCEPT !.i = r.i + 1]
    ELSE [r EXCEPT !.i = 0, !.pc = pc]

\* orig.rs:247-252
RaderCall(input, output, istep, istep2, ostep, ostep2, count) ==
    /\ xplan.kind = "Rader"
    /\ rad.pc = "idle"
    /\ rad' = [pc |-> "permute",
               c |-> [input |-> input, output |-> output, istep |-> istep,
                      istep2 |-> istep2, ostep |-> ostep, ostep2 |-> ostep2,
                      count |-> count],
               buf |-> Zeros(count + (xplan.n - 1) * count * 2), after |-> <<>>,
               out |-> output, i |-> 0, used |-> {}, regions |-> <<>>]
    /\ UNCHANGED <<fld, xplan, xin, xout, xbuf, mcall, mout, parVars, kin, kout, drv, blu>>
    /\ UNCHANGED <<loreVars, planVars>>

\* orig.rs:257-267: one turn of the loop over i
RaderPermute ==
    /\ rad.pc = "permute"
    /\ LET c == rad.c
           n_minus_1 == xplan.n - 1
           i == rad.i
           in_idx == Force([k \in 1..n_minus_1 |->
                         i * c.istep2 + Powermod(xplan.g, k - 1, xplan.n) * c.istep])
           buf_idx == Force([k \in 1..n_minus_1 |->
                          PermuteIndex(c.count, k - 1, i, n_minus_1)])
       IN rad' = IF \/ i * c.istep2 >= Len(c.input) \/ i >= Len(rad.buf)
                    \/ ~InRange(in_idx, c.input) \/ ~InRange(buf_idx, rad.buf)
                 THEN [rad EXCEPT !.pc = "panicked"]
                 ELSE NextTurn(
                        [rad EXCEPT
                           !.buf = Store(Store(rad.buf, <<i>>, <<c.input[i * c.istep2 + 1]>>),
                                         buf_idx,
                                         [k \in 1..n_minus_1 |-> c.input[in_idx[k] + 1]]),
                           !.used = rad.used \cup {<<"dc", i, 0, i>>}
                                      \cup {<<"permute", i, k - 1, buf_idx[k]>> :
                                                k \in 1..n_minus_1}],
                        "forward")
    /\ UNCHANGED <<fld, xplan, xin, xout, xbuf, mcall, mout, parVars, kin, kout, drv, blu>>
    /\ UNCHANGED <<loreVars, planVars>>

\* the sub-plan call r has run from buf[from .. from + len) to buf[to .. to + len)
AfterSubPlan(r, from, to, len, pc) ==
    IF ~r.ok THEN [rad EXCEPT !.pc = "panicked"]
    ELSE [rad EXCEPT
            !.pc = pc,
            !.buf = SubSeq(rad.buf, 1, to) \o r.out \o From(rad.buf, to + len),
            !.after = IF pc = "multiply"
                      THEN SubSeq(rad.buf, 1, to) \o r.out \o From(rad.buf, to + len)
                      ELSE rad.after,
            !.regions = Append(rad.regions,
                               [input |-> <<from, from + len>>, output |-> <<to, to + len>>])]

\* orig.rs:273-283: buf_lower[count..] is buf[count .. split_idx), buf_upper is
\* buf[split_idx ..]
RaderForward ==
    /\ rad.pc = "forward"
    /\ rad' = AfterSubPlan(
                 xform_many(xplan.dft_n1,
                            SubSeq(rad.buf, rad.c.count + 1,
                                   SplitIdx(rad.c.count, xplan.n - 1)),
                            From(rad.buf, SplitIdx(rad.c.count, xplan.n - 1)),
                            1, xplan.n - 1, 1, xplan.n - 1, rad.c.count),
                 rad.c.count, SplitIdx(rad.c.count, xplan.n - 1),
                 Len(rad.buf) - SplitIdx(rad.c.count, xplan.n - 1), "multiply")
    /\ UNCHANGED <<fld, xplan, xin, xout, xbuf, mcall, mout, parVars, kin, kout, drv, blu>>
    /\ UNCHANGED <<loreVars, planVars>>

\* orig.rs:288-300: one turn of the loop over i
RaderMultiply ==
    /\ rad.pc = "multiply"
    /\ LET c == rad.c
           n_minus_1 == xplan.n - 1
           i == rad.i
           idx_src == Force([k \in 1..n_minus_1 |->
                          KernelIndex(c.count, k - 1, i, n_minus_1)])
           dc_src == KernelIndex(c.count, 0, i, n_minus_1)
       IN rad' = IF \/ dc_src >= Len(rad.buf) \/ ~InRange(idx_src, rad.buf)
                    \/ i * c.ostep2 >= Len(rad.out)
                 THEN [rad EXCEPT !.pc = "panicked"]
                 ELSE NextTurn(
                        [rad EXCEPT
                           !.out = Store(rad.out, <<i * c.ostep2>>,
                                         <<CAdd(rad.buf[i + 1], rad.buf[dc_src + 1])>>),
                           !.buf = Store(rad.buf, idx_src,
                                      [k \in 1..n_minus_1 |->
                                          Conj(CAdd(CMul(rad.buf[idx_src[k] + 1],
                                                         xplan.omega[k]),
                                                    IF k = 1 THEN rad.buf[i + 1]
                                                    ELSE <<0, 0>>))]),
                           !.used = rad.used \cup {<<"dc", i, 0, i>>}
                                      \cup {<<"multiply", i, 0, dc_src>>}
                                      \cup {<<"multiply", i, k - 1, idx_src[k]>> :
                                                k \in 1..n_minus_1}],
                        "inverse")
    /\ UNCHANGED <<fld, xplan, xin, xout, xbuf, mcall, mout, parVars, kin, kout, drv, blu>>
    /\ UNCHANGED <<loreVars, planVars>>

\* orig.rs:305-315
RaderInverse ==
    /\ rad.pc = "inverse"
    /\ rad' = AfterSubPlan(
                 xform_many(xplan.dft_n1,
                            From(rad.buf, SplitIdx(rad.c.count, xplan.n - 1)),
                            SubSeq(rad.buf, rad.c.count + 1,
                                   SplitIdx(rad.c.count, xplan.n - 1)),
                            1, xplan.n - 1, 1, xplan.n - 1, rad.c.count),
                 SplitIdx(rad.c.count, xplan.n - 1), rad.c.count,
                 SplitIdx(rad.c.count, xplan.n - 1) - rad.c.count, "write")
    /\ UNCHANGED <<fld, xplan, xin, xout, xbuf, mcall, mout, parVars, kin, kout, drv, blu>>
    /\ UNCHANGED <<loreVars, planVars>>

\* orig.rs:320-328: one turn of the loop over i
RaderWrite ==
    /\ rad.pc = "write"
    /\ LET c == rad.c
           n_minus_1 == xplan.n - 1
           i == rad.i
           buf_idx == Force([k \in 1..n_minus_1 |->
                          PermuteIndex(c.count, k - 1, i, n_minus_1)])
           out_idx == Force([k \in 1..n_minus_1 |->
                          i * c.ostep2 + Powermod(xplan.g_inv, k - 1, xplan.n) * c.ostep])
       IN rad' = IF ~InRange(buf_idx, rad.buf) \/ ~InRange(out_idx, rad.out)
                 THEN [rad EXCEPT !.pc = "panicked"]
                 ELSE NextTurn(
                        [rad EXCEPT
                           !.out = Store(rad.out, out_idx,
                                         [k \in 1..n_minus_1 |->
                                             Conj(rad.buf[buf_idx[k] + 1])]),
                           !.used = rad.used
                                      \cup {<<"write", i, k - 1, buf_idx[k]>> :
                                                k \in 1..n_minus_1}],
                        "done")
    /\ UNCHANGED <<fld, xplan, xin, xout, xbuf, mcall, mout, parVars, kin, kout, drv, blu>>
    /\ UNCHANGED <<loreVars, planVars>>

NextRader ==
    \/ \E n \in RaderSizes : GetRader(n)
    \/ \E count \in 1..MaxCount :
          \E li \in Layouts(xplan.n, count), lo \in Layouts(xplan.n, count) :
             \E ilen \in Lengths(xplan.n, li[1], li[2], count),
                olen \in Lengths(xplan.n, lo[1], lo[2], count) :
                \E input \in Contents(ilen) :
                   RaderCall(input, Marks(olen), li[1], li[2], lo[1], lo[2], count)
    \/ RaderPermute
    \/ RaderForward
    \/ RaderMultiply
    \/ RaderInverse
    \/ RaderWrite

SpecRader == InitXform /\ [][NextRader]_vars

\* the least divisor of n above 1, which is its smallest prime factor
LeastDivisor(n) == CHOOSE d \in 2..n : n % d = 0 /\ \A e \in 2..(d - 1) : n % e # 0

\* C9: every factor-cache entry n -> f with n >= 2 has f the smallest prime
\* factor of n (so f = n exactly when n is prime), and every member of the
\* known-primes list is prime.
C9_FactorCacheCorrect ==
    /\ \A n \in DOMAIN PRIME_LORE.smallest_factors :
          n >= 2 => PRIME_LORE.smallest_factors[n] = LeastDivisor(n)
    /\ \A i \in 1..Len(PRIME_LORE.primes) : IsPrimeNumber(PRIME_LORE.primes[i])

\* C10: an entry of the factor cache is never overwritten or removed, and a
\* later query for n returns what the first query for n returned, whatever
\* was queried in between.
C10_FactorCacheMonotone ==
    /\ [][\A n \in DOMAIN PRIME_LORE.smallest_factors :
            /\ n \in DOMAIN PRIME_LORE'.smallest_factors
            /\ PRIME_LORE'.smallest_factors[n] = PRIME_LORE.smallest_factors[n]]_vars
    /\ [](\A i, j \in 1..Len(asked) :
            asked[i].n = asked[j].n => asked[i].factors = asked[j].factors)

\* a number beyond the warmed range was queried, then others, then it again
C10_Witness ==
    \E i, j \in 1..Len(asked) :
        /\ i + 1 < j
        /\ asked[i].n = asked[j].n
        /\ asked[i].n >= WarmLimit
        /\ asked[i + 1].n # asked[i].n
        /\ asked[i + 1].n >= WarmLimit

\* the product of the numbers of a list
RECURSIVE Product(_)
Product(fs) == IF fs = <<>> THEN 1 ELSE fs[1] * Product(Tail(fs))

\* C11: whatever the factor cache holds, get_factors_all(n) returns for n >= 2
\* a list of factors whose product is exactly n, with count the length of the
\* list, and for n <= 1 the empty list and count 0; so did every call made so
\* far.  (The numbers are below 2^31, where no p * p of find leaves usize.)
C11_FactorsProduct ==
    /\ \A n \in {0, 1} \cup QueryInputs :
          LET r == GetFactorsAll(PRIME_LORE, n)
          IN /\ r.count = Len(r.factors)
             /\ n <= 1 => r.factors = <<>>
             /\ n >= 2 => Product(r.factors) = n /\ \A i \in 1..Len(r.factors) : r.factors[i] >= 2
    /\ \A i \in 1..Len(asked) : Product(asked[i].factors) = asked[i].n

\* after a query that changed the cache, a product of two primes beyond the
\* warmed range was split in its two factors
C11_Witness ==
    \E i, j \in 1..Len(asked) :
        /\ i < j
        /\ asked[i].n > WarmLimit
        /\ asked[i].n # asked[j].n
        /\ asked[j].n > WarmLimit * WarmLimit
        /\ Len(asked[j].factors) = 2

(***************************************************************************)
(* Claims about find_dft and the plan cache.                               *)
(***************************************************************************)
\* the number of prime factors of n, counted with multiplicity
RECURSIVE Omega(_)
Omega(n) == IF n < 2 THEN 0 ELSE 1 + Omega(n \div LeastDivisor(n))

\* C2: any two find_dft(N) calls for the same N, sequential or concurrent,
\* return the same plan instance.
C2_PlanIdentity ==
    \A x, y \in handed : x[1] = y[1] => x[2] = y[2]

\* C3: once the plan cache holds an entry for size N, no later find_dft call
\* replaces or removes it (the second of two racing builders discards its plan).
C3_InsertMonotone ==
    [][\A n \in DOMAIN PLAN_CACHE :
          n \in DOMAIN PLAN_CACHE' /\ PLAN_CACHE'[n] = PLAN_CACHE[n]]_vars

\* C4: the plan-cache lock is held only for the lookup and for the insert,
\* never while a plan is constructed, a sub-plan is requested or the
\* factor-cache lock is acquired; the factor-cache lock is held only inside
\* get_factors_all; and whenever some thread is inside find_dft, some thread
\* inside find_dft can take a step (not every thread is blocked on a lock).
C4_NoDeadlock ==
    /\ \A t \in Threads : plan_lock = t => AtPc(t, {"L56", "L99"})
    /\ \A t \in Threads : lore_lock = t => AtPc(t, {"L81b", "R28b", "D161b"})
    /\ (\E t \in Threads : status[t] = "busy")
          => \E t \in Threads : status[t] = "busy" /\ ENABLED Step(t)

\* a thread inside a recursive sub-plan request waits for the plan-cache lock
\* that another thread holds
C4_Witness ==
    \E t1, t2 \in Threads :
        /\ t1 # t2
        /\ plan_lock = t1
        /\ Depth(t2) >= 2
        /\ AtPc(t2, {"L55", "L98"})

\* C5: under fair scheduling every find_dft call ends (the calls being finitely
\* many, from some point on no thread is inside find_dft), and a call for
\* N >= 1 ends by returning a plan of size N (only find_dft(0) panics).
C5_Termination ==
    /\ <>[](\A t \in Threads : status[t] # "busy")
    /\ [](\A t \in Threads :
            /\ status[t] = "panicked" => req[t] = 0
            /\ (status[t] = "idle" /\ req[t] >= 1)
                  => result[t] \in PlanIds /\ plans[result[t]].n = req[t])

\* a call has returned a Bluestein plan whose sub-plan is mixed-radix: the
\* chain of sub-plan requests went three deep
C5_Witness ==
    \E t \in Threads :
        /\ status[t] = "idle"
        /\ req[t] >= 1
        /\ result[t] \in PlanIds
        /\ plans[result[t]].kind = "Bluestein"
        /\ plans[plans[result[t]].sub1].kind = "RadixP"

C7_PrimeSelection ==
    \A i \in PlanIds :
        (IsPrimeNumber(plans[i].n) /\ plans[i].n \notin {1, 2, 3, 4, 5, 6, 8})
            => IF Omega(plans[i].n - 1) >= 2
               THEN plans[i].kind = "Rader"
               ELSE /\ plans[i].kind = "Bluestein"
                    /\ plans[i].nb = NextPowerOfTwo(2 * plans[i].n - 1)

\* C8: find_dft(0) fails: it returns no plan, its thread ends panicked, no
\* entry for key 0 enters the plan cache and no plan of size 0 exists.
C8_ZeroRejected ==
    /\ 0 \notin DOMAIN PLAN_CACHE
    /\ \A i \in PlanIds : plans[i].n # 0
    /\ \A x \in handed : x[1] # 0
    /\ \A t \in Threads : (req[t] = 0 /\ status[t] # "busy") => status[t] = "panicked"

\* find_dft(0) has panicked in a wrapping build, inside DFTRader::new, after
\* get_factors_all(usize::MAX) ran
C8_Witness ==
    \E t \in Threads :
        /\ req[t] = 0
        /\ status[t] = "panicked"
        /\ ~overflow_checks
        /\ PRIME_LORE.last_prime = UsizeMaxFactors[7]

\* the find_dft activations of thread t that were called from a constructor
Nested(t) == 2..Depth(t)

\* C18 as claimed: every size requested while the plan for N is constructed is
\* smaller than N.
C18_SubPlansSmaller ==
    \A t \in Threads : \A d \in Nested(t) : stack[t][d].n < stack[t][d - 1].n

\* C18 as amended: DFTRadix::new requests p and q and DFTRader::new requests
\* N - 1, all smaller than N; DFTBluestein::new requests N_b, the power of two
\* from 2N - 1 on, which is larger than N; and no size is requested while its own
\* plan is constructed, so the requests form no cycle.
C18_SubPlansAcyclic ==
    \A t \in Threads :
        /\ \A d \in Nested(t) :
              LET caller == stack[t][d - 1]
                  callee == stack[t][d]
              IN CASE caller.pc = "R45" -> callee.n = caller.p /\ callee.n < caller.n
                   [] caller.pc = "R47" -> callee.n = caller.q /\ callee.n < caller.n
                   [] caller.pc = "D194" -> callee.n = caller.n - 1
                   [] caller.pc = "B368" ->
                        /\ callee.n = NextPowerOfTwo(2 * caller.n - 1)
                        /\ callee.n > caller.n
                   [] OTHER -> FALSE
        /\ \A d, e \in 1..Depth(t) : d < e => stack[t][d].n # stack[t][e].n

\* DFTBluestein::new for a size N has requested N_b > N, and the constructor
\* of the plan for N_b has requested a smaller size in turn
C18_Witness ==
    \E t \in Threads :
        /\ Depth(t) >= 3
        /\ stack[t][1].pc = "B368"
        /\ stack[t][2].n > stack[t][1].n
        /\ stack[t][3].n < stack[t][2].n


(***************************************************************************)
(* Claims about the transforms.                                            *)
(***************************************************************************)
\* the unnormalized forward DFT of x: y[k] = sum over n of x[n] * exp(-2*pi*i*k*n/N)
RECURSIVE DFTSum(_, _, _)
DFTSum(x, k, j) ==
    IF j >= Len(x) THEN <<0, 0>>
    ELSE CAdd(CMul(x[j + 1], w(k * j, Len(x))), DFTSum(x, k, j + 1))

DFT(x) == [k \in 1..Len(x) |-> DFTSum(x, k - 1, 0)]

\* count separate calls plan.xform_many(&input[i * istep2 ..],
\* &mut output[i * ostep2 ..], istep, istep2, ostep, ostep2, 1), for i = i, i + 1, ...
RECURSIVE Separately(_, _, _, _)
Separately(plan, c, output, i) ==
    IF i >= c.count THEN Done(output)
    ELSE IF i * c.istep2 > Len(c.input) \/ i * c.ostep2 > Len(output) THEN Panicked
    ELSE LET r == xform_many(plan, From(c.input, i * c.istep2), From(output, i * c.ostep2),
                             c.istep, c.istep2, c.ostep, c.ostep2, 1)
         IN IF ~r.ok THEN Panicked
            ELSE Separately(plan, c, SubSeq(output, 1, i * c.ostep2) \o r.out, i + 1)

\* the input indices and the output indices of the call: element a of
\* transform i is cell i * N + a + 1
InIndices(N, c) ==
    [k \in 1..(N * c.count) |-> ((k - 1) % N) * c.istep + ((k - 1) \div N) * c.istep2]

OutIndices(N, c) ==
    [k \in 1..(N * c.count) |-> ((k - 1) % N) * c.ostep + ((k - 1) \div N) * c.ostep2]

\* the same transforms run on the contiguous layout: element a of transform i
\* at a + i * N, in the input and in the output
Contiguously(plan, c) ==
    LET N == plan.n
        idx == InIndices(N, c)
    IN xform_many(plan, Force([k \in 1..(N * c.count) |-> c.input[idx[k] + 1]]),
                  Zeros(N * c.count), 1, N, 1, N, c.count)

\* the xform_many call of SpecMany was made
Called == mcall.count > 0

\* C12: one xform_many call with count = C that returns has written, element
\* for element, what C separate calls with count = 1 write, call i on the input
\* slice from i * istep2 and the output slice from i * ostep2; those calls
\* return too.  (Layouts in which no two output elements share a place.)
C12_BatchedEquivalence ==
    (Called /\ mout.ok) =>
        LET sep == Separately(xplan, mcall, mcall.output, 0)
        IN sep.ok /\ sep.out = mout.out

\* a mixed-radix plan ran four or more interleaved transforms in one call
C12_Witness ==
    /\ Called /\ mout.ok
    /\ xplan.kind = "RadixP"
    /\ mcall.count >= 4
    /\ mcall.istep = mcall.count /\ mcall.istep2 = 1
    /\ mout.out # mcall.output

\* C13: for the strides of every layout, the value a strided xform_many that
\* returns has written at a * ostep + i * ostep2 is the value the same plan
\* leaves at a + i * N when run on the contiguous layout, the input element a
\* of transform i being the one at a * istep + i * istep2.
C13_StrideEquivalence ==
    (Called /\ mout.ok) =>
        LET con == Contiguously(xplan, mcall)
            oi == OutIndices(xplan.n, mcall)
        IN con.ok /\ \A k \in DOMAIN oi : mout.out[oi[k] + 1] = con.out[k]

\* a mixed-radix plan ran two or more transforms with the elements of each at
\* every second place, in the input and in the output
C13_Witness ==
    /\ Called /\ mout.ok
    /\ xplan.kind = "RadixP"
    /\ mcall.count >= 2
    /\ mcall.istep = 2 /\ mcall.ostep = 2

\* C14: xform_inplace(buf) ends as xform(copy of buf, out) ends and leaves in
\* buf exactly the values xform leaves in out, whatever out held before.
C14_InplaceEquivalence ==
    xbuf # Done(<<>>) => xbuf = xout

\* xform and xform_inplace of a Bluestein plan have run on the same numbers
\* and the buffer is not what it was
C14_Witness ==
    /\ xplan.kind = "Bluestein"
    /\ xbuf.ok /\ xbuf.out # <<>> /\ xbuf.out # xin

\* C15: xform_many ends without a panic whenever the input and the output
\* reach the last index of their strides, that is have at least
\* 1 + (N - 1) * step + (count - 1) * step2 elements.
C15_NoPanic ==
    (/\ Called
     /\ Len(mcall.input) >= Reach(xplan.n, mcall.istep, mcall.istep2, mcall.count)
     /\ Len(mcall.output) >= Reach(xplan.n, mcall.ostep, mcall.ostep2, mcall.count))
        => mout.ok

\* the input with every element the strides of the call do not reach changed
Elsewhere(N, c) ==
    LET idx == InIndices(N, c)
    IN [j \in 1..Len(c.input) |->
           IF \E k \in DOMAIN idx : idx[k] = j - 1 THEN c.input[j]
           ELSE CAdd(c.input[j], <<1, 1>>)]

\* out differs from the output of the call at the places a * ostep + i * ostep2 only
SameElsewhere(N, c, out) ==
    LET idx == OutIndices(N, c)
    IN /\ Len(out) = Len(c.output)
       /\ \A j \in 1..Len(out) :
             (\A k \in DOMAIN idx : idx[k] # j - 1) => out[j] = c.output[j]

\* C16: an xform_many call that returns has written the output at the indices
\* a * ostep + i * ostep2 only, also after the first and the second stage of a
\* mixed-radix plan, and has read the input at the indices a * istep +
\* i * istep2 only: changing the input anywhere else changes nothing.
C16_Frame ==
    (Called /\ mout.ok) =>
        /\ SameElsewhere(xplan.n, mcall, mout.out)
        /\ xform_many(xplan, Elsewhere(xplan.n, mcall), mcall.output, mcall.istep,
                      mcall.istep2, mcall.ostep, mcall.ostep2, mcall.count) = mout
        /\ xplan.kind = "RadixP" =>
              LET rows == RadixRows(xplan, mcall.input, mcall.output, mcall.istep,
                                    mcall.istep2, mcall.ostep, mcall.ostep2, 0, mcall.count)
                  tw == RadixTwiddle(xplan, rows.out, mcall.ostep, mcall.ostep2, mcall.count)
              IN /\ rows.ok /\ SameElsewhere(xplan.n, mcall, rows.out)
                 /\ tw.ok /\ SameElsewhere(xplan.n, mcall, tw.out)

\* a Bluestein plan ran two or more transforms laid out in padded rows: there
\* are places between the transforms, in the input and in the output
C16_Witness ==
    /\ Called /\ mout.ok
    /\ xplan.kind = "Bluestein"
    /\ mcall.count >= 2
    /\ mcall.istep2 = xplan.n + 1 /\ mcall.ostep2 = xplan.n + 1

\* the input of transform i of the call, element n being the one at
\* i * istep2 + n * istep
Signal(N, c, i) == Force([n \in 1..N |-> c.input[i * c.istep2 + (n - 1) * c.istep + 1]])

\* the input of transform b of the first stage: the elements b + a * p
ColumnIn(plan, x, b) == Force([a \in 1..plan.q |-> x[b + (a - 1) * plan.p + 1]])

\* the input of transform a of the second stage when the first stage has left
\* DFTs: the numbers at b * q + a after the multiplication by w_N^(a * b)
RowIn(plan, x, a) ==
    Force([b \in 1..plan.p |->
        CMul(DFTSum(ColumnIn(plan, x, b - 1), a, 0), w(a * (b - 1), plan.n))])

\* the sub-plans leave the DFT of what the two stages hand to them
SubPlansExact(plan, c) ==
    \A i \in 0..(c.count - 1) :
        /\ \A b \in 0..(plan.p - 1) :
              xform(plan.dft_q, ColumnIn(plan, Signal(plan.n, c, i), b), Zeros(plan.q))
                  = Done(DFT(ColumnIn(plan, Signal(plan.n, c, i), b)))
        /\ \A a \in 0..(plan.q - 1) :
              xform(plan.dft_p, RowIn(plan, Signal(plan.n, c, i), a), Zeros(plan.p))
                  = Done(DFT(RowIn(plan, Signal(plan.n, c, i), a)))

\* C22: when the sub-plans of a mixed-radix plan leave exact DFTs of the sizes
\* p and q, an xform_many call that returns has left at i * ostep2 + k * ostep
\* the sum over n of x[i * istep2 + n * istep] * w_N^(k * n), for every k in
\* 0 .. N - 1 (natural order, nothing permuted); and at every place b * q + a
\* the second stage skips (a = 0 or b = 0) the exponent (idx mod q) * (idx div q)
\* of the table is 0 modulo N, the table holding 1 there.
C22_MixedRadix ==
    (Called /\ mout.ok /\ xplan.kind = "RadixP" /\ SubPlansExact(xplan, mcall)) =>
        /\ \A i \in 0..(mcall.count - 1), k \in 0..(xplan.n - 1) :
              mout.out[i * mcall.ostep2 + k * mcall.ostep + 1]
                  = DFTSum(Signal(xplan.n, mcall, i), k, 0)
        /\ \A b \in 0..(xplan.p - 1), a \in 0..(xplan.q - 1) :
              (a = 0 \/ b = 0) =>
                  /\ (((b * xplan.q + a) % xplan.q) * ((b * xplan.q + a) \div xplan.q))
                         % xplan.n = 0
                  /\ xplan.wtable[b * xplan.q + a + 1] = <<1, 0>>

\* the plan 10 = 2 * 5 with exact sub-plans ran two or more transforms with the
\* elements of each at every second place, and left numbers that are not all
\* the same
C22_Witness ==
    /\ Called /\ mout.ok
    /\ xplan.kind = "RadixP" /\ xplan.p = 2 /\ xplan.q = 5
    /\ SubPlansExact(xplan, mcall)
    /\ mcall.count >= 2 /\ mcall.istep = 2 /\ mcall.ostep = 2
    /\ mout.out[1] # mout.out[3]

\* batch strides a caller may pass along with one transform of length N: none,
\* one place, more than a row, more than the buffers of the model hold
BatchStrides(N) == {0, 1, N + 2, 64 * N}

\* C24: with count = 1 and a plan as find_dft returns it, xform_many ends the
\* same way and leaves the same output whatever istep2 and ostep2 are, on
\* buffers that end at the last index (N - 1) * step too; and the indices it
\* reads stay the indices a * istep: with other numbers at every other place
\* of the input, and other batch strides, the call ends as before.
C24_SingleIgnoresBatchStrides ==
    (Called /\ mcall.count = 1 /\ xplan = find_dft(xplan.n)) =>
        \A s \in BatchStrides(xplan.n), t \in BatchStrides(xplan.n) :
            /\ xform_many(xplan, mcall.input, mcall.output,
                          mcall.istep, s, mcall.ostep, t, 1) = mout
            /\ xform_many(xplan, Elsewhere(xplan.n, mcall), mcall.output,
                          mcall.istep, s, mcall.ostep, t, 1) = mout

\* one transform has run under a Bluestein plan at every second place of
\* buffers that end at the last index, with batch strides that lead out of
\* the buffers
C24_Witness ==
    /\ Called /\ mout.ok
    /\ xplan.kind = "Bluestein" /\ xplan = find_dft(xplan.n)
    /\ mcall.count = 1
    /\ mcall.istep = 2 /\ mcall.ostep = 2
    /\ Len(mcall.input) = Reach(xplan.n, 2, 0, 1)
    /\ Len(mcall.output) = Reach(xplan.n, 2, 0, 1)
    /\ mcall.istep2 > Len(mcall.input) /\ mcall.ostep2 > Len(mcall.output)

\* both loops of DFTBluestein::new have ended, with the nb that find_dft passes
ChirpFilled ==
    /\ blu.pc = "done" \/ (blu.pc = "mirror" /\ blu.k >= blu.n)
    /\ blu.nb = NextPowerOfTwo(2 * blu.n - 1)

\* C25: for every n >= 1 and nb the least power of two >= 2n - 1, the table
\* w1 of DFTBluestein::new holds before its transform w0[k] / nb at k in
\* 0 .. n - 1, the same number at nb - k as at k for k in 1 .. n - 1, and 0
\* everywhere else; no index nb - k lies in 0 .. n - 1, and no place of w1 is
\* stored to twice with different numbers.
C25_ChirpKernel ==
    ChirpFilled =>
        /\ \A k \in 0..(blu.n - 1) :
              CScale(blu.w1[k + 1], blu.nb) = blu.w0[k + 1]
        /\ \A k \in 1..(blu.n - 1) :
              /\ blu.w1[blu.nb - k + 1] = blu.w1[k + 1]
              /\ blu.nb - k \notin 0..(blu.n - 1)
        /\ \A j \in 0..(blu.nb - 1) :
              (j >= blu.n /\ \A k \in 1..(blu.n - 1) : j # blu.nb - k)
                  => blu.w1[j + 1] = <<0, 0>>
        /\ \A i \in 1..Len(blu.writes), j \in 1..Len(blu.writes) :
              blu.writes[i][1] = blu.writes[j][1] => blu.writes[i][2] = blu.writes[j][2]
        /\ Len(blu.writes) = 2 * blu.n - 1

\* DFTBluestein::new(7, 16) has returned the plan find_dft builds for 7; its
\* w1 had numbers at 0 .. 6 and 10 .. 15 and 0 at the three places between
C25_Witness ==
    /\ blu.pc = "done" /\ blu.n = 7 /\ blu.nb = 16
    /\ xplan = find_dft(7)
    /\ \A j \in 1..16 : (blu.w1[j] = <<0, 0>>) <=> j \in 8..10

\* the inputs of transform i of the Rader call in the order of the powers of
\* g, and what a forward transform of the sub-plan makes of them
RaderIn(i) ==
    Force([k \in 1..(xplan.n - 1) |->
        rad.c.input[i * rad.c.istep2 + Powermod(xplan.g, k - 1, xplan.n) * rad.c.istep + 1]])
RaderBins(i) == xform(xplan.dft_n1, RaderIn(i), Zeros(xplan.n - 1)).out

\* the ranges <<from, to>> of buf have no index in common
Apart(r, s) == r[2] <= s[1] \/ s[2] <= r[1]

\* C26: in DFTRader::xform_many buf has count + 2 * (N - 1) * count places;
\* the index count + k + (N - 1) * (i + count) of the kernel-multiply stage
\* lies in the upper half and is the place where the first sub-plan call
\* (inner stride 1, batch stride N - 1) has left bin k of transform i; the
\* permuted inputs of transform i lie at count + k + i * (N - 1) in the lower
\* half; every index of buf used is in range; and the input and the output
\* range of buf handed to the sub-plan never overlap.
C26_RaderScratch ==
    rad.pc # "idle" =>
        LET count == rad.c.count
            n_minus_1 == xplan.n - 1
            split_idx == count + n_minus_1 * count
        IN /\ Len(rad.buf) = count + 2 * n_minus_1 * count
           /\ \A u \in rad.used : u[4] >= 0 /\ u[4] < Len(rad.buf)
           /\ \A i \in 0..(count - 1) :
                 /\ \A u \in rad.used :
                       (u[1] = "multiply" /\ u[2] = i) =>
                           /\ u[4] = count + u[3] + n_minus_1 * (i + count)
                           /\ u[4] >= split_idx
                           /\ rad.after[u[4] + 1] = RaderBins(i)[u[3] + 1]
                 /\ \A u \in rad.used :
                       (u[1] \in {"permute", "write"} /\ u[2] = i) =>
                           /\ u[4] = count + u[3] + i * n_minus_1
                           /\ u[4] >= count /\ u[4] < split_idx
                 /\ (rad.pc = "forward" \/ (rad.pc = "permute" /\ i < rad.i)) =>
                       \A k \in 0..(n_minus_1 - 1) :
                           rad.buf[count + k + i * n_minus_1 + 1] = RaderIn(i)[k + 1]
                 /\ rad.pc \in {"inverse", "write", "done"} =>
                       \A k \in 0..(n_minus_1 - 1) :
                           <<"multiply", i, k, count + k + n_minus_1 * (i + count)>>
                               \in rad.used
           /\ \A j \in 1..Len(rad.regions) :
                 /\ Apart(rad.regions[j].input, rad.regions[j].output)
                 /\ rad.regions[j].input[1] >= count
                 /\ rad.regions[j].output[1] >= count
                 /\ rad.regions[j].input[2] <= Len(rad.buf)
                 /\ rad.regions[j].output[2] <= Len(rad.buf)
                 /\ rad.regions[j].input[2] - rad.regions[j].input[1] = n_minus_1 * count
                 /\ rad.regions[j].output[2] - rad.regions[j].output[1] = n_minus_1 * count

\* the plan of size 7 has run three or more interleaved transforms to the end,
\* through both sub-plan calls, and has left what xform_many of the plan leaves
C26_Witness ==
    /\ rad.pc = "done"
    /\ xplan.kind = "Rader" /\ xplan.n = 7
    /\ rad.c.count >= 3 /\ rad.c.istep = rad.c.count /\ rad.c.istep2 = 1
    /\ Len(rad.regions) = 2
    /\ <<"multiply", 2, 5, rad.c.count + 5 + 6 * (2 + rad.c.count)>> \in rad.used
    /\ Done(rad.out) = xform_many(xplan, rad.c.input, rad.c.output, rad.c.istep,
                                  rad.c.istep2, rad.c.ostep, rad.c.ostep2, rad.c.count)

\* transform j of the dosimd2 call as the caller laid it out, and what the
\* kernel makes of it
DriverIn(j) == [a \in 0..(drv.N - 1) |-> drv.input[a * drv.istep + j * drv.istep2 + 1]]
DriverOut(j) == Kernel(drv.N, DriverIn(j))

\* C23: whatever num is, the batches of dosimd2 take the transforms 0, 1, ...
\* in turn, each once, 8 at a time while 8 or more are left, then 4 at a time
\* while 4 or more are left, then one at a time, and when the loops end all
\* num transforms are done; lane b of the batch that starts at transform t
\* reads element a at a * istep + (t + b) * istep2 of the caller's input and
\* writes it at a * ostep + (t + b) * ostep2 of the caller's output.
C23_Driver ==
    drv.pc # "idle" =>
        /\ \A j \in 1..Len(drv.log) :
              LET e == drv.log[j]
              IN /\ e.t = IF j = 1 THEN 0 ELSE drv.log[j - 1].t + drv.log[j - 1].L
                 /\ e.L = IF drv.num - e.t >= 8 THEN 8
                          ELSE IF drv.num - e.t >= 4 THEN 4 ELSE 1
                 /\ e.t + e.L <= drv.num
                 /\ \A b \in 0..(e.L - 1), a \in 0..(drv.N - 1) :
                       /\ e.ioff + a * drv.istep + b * drv.step2[1]
                             = a * drv.istep + (e.t + b) * drv.istep2
                       /\ e.ooff + a * drv.ostep + b * drv.step2[2]
                             = a * drv.ostep + (e.t + b) * drv.ostep2
                       /\ drv.output[a * drv.ostep + (e.t + b) * drv.ostep2 + 1]
                             = DriverOut(e.t + b)[a + 1]
        /\ drv.pc = "done" =>
              IF drv.num = 0 THEN drv.log = <<>>
              ELSE /\ drv.log # <<>>
                   /\ drv.log[Len(drv.log)].t + drv.log[Len(drv.log)].L = drv.num

\* a call with 13 transforms of length 3, interleaved in the input and in
\* padded rows in the output, has returned after batches of 8, 4 and 1
C23_Witness ==
    /\ drv.pc = "done"
    /\ drv.num = 13 /\ drv.N = 3
    /\ drv.istep = 13 /\ drv.istep2 = 1 /\ drv.ostep2 = 4
    /\ Len(drv.log) = 3
    /\ drv.log[1].L = 8 /\ drv.log[2].L = 4 /\ drv.log[3].L = 1
    /\ drv.log[3].ioff = 12 /\ drv.log[3].ooff = 48

\* what K::transform was given and what it left in lane b
LaneIn(b) == [j \in 1..kin.N |-> kin.x[j - 1][b]]
LaneOut(b) == [j \in 1..kin.N |-> kout[j - 1][b]]

\* C20: the kernels of the sizes 1, 2, 4 and 8 leave in every lane the DFT of
\* what the lane held: X[k] = sum over n of x[n] * w^(k * n), w = exp(-2*pi*i/s);
\* the kernel of size 1 leaves what it was given, the kernel of size 2 makes
\* [2, 0] of [1, 1], the kernel of size 4 makes [1, 1, 1, 1] of [1, 0, 0, 0] and
\* [4, 0, 0, 0] of [1, 1, 1, 1].
C20_KernelsDFT ==
    kin.N \in {1, 2, 4, 8} =>
        /\ \A b \in 0..(kin.L - 1) :
              /\ LaneOut(b) = DFT(LaneIn(b))
              /\ kin.N = 1 => LaneOut(b) = LaneIn(b)
              /\ LaneIn(b) = <<<<1, 0>>, <<1, 0>>>> => LaneOut(b) = <<<<2, 0>>, <<0, 0>>>>
              /\ LaneIn(b) = <<<<1, 0>>, <<0, 0>>, <<0, 0>>, <<0, 0>>>> => LaneOut(b) = Ones(4)
              /\ LaneIn(b) = Ones(4)
                    => LaneOut(b) = <<<<4, 0>>, <<0, 0>>, <<0, 0>>, <<0, 0>>>>

\* the kernel of size 8 has transformed eight lanes that all differ, none of
\* them zero
C20_Witness ==
    /\ kin.N = 8
    /\ kin.L = 8
    /\ \A b, c \in 0..7 : b # c => LaneIn(b) # LaneIn(c)
    /\ \A b \in 0..7 : LaneOut(b) # Zeros(8)

\* C21: the kernels of the sizes 3, 5 and 6 leave in every lane the DFT of
\* what the lane held, X[k] = sum over n of x[n] * exp(-2*pi*i*k*n/s): a unit
\* impulse at place n gives X[k] = exp(-2*pi*i*k*n/s) for every k.
C21_KernelsDFT ==
    kin.N \in {3, 5, 6} =>
        \A b \in 0..(kin.L - 1) :
            /\ LaneOut(b) = DFT(LaneIn(b))
            /\ \A n \in 0..(kin.N - 1) :
                  LaneIn(b) = [j \in 1..kin.N |-> IF j = n + 1 THEN <<1, 0>> ELSE <<0, 0>>]
                     => LaneOut(b) = [k \in 1..kin.N |-> w((k - 1) * n, kin.N)]

\* x is a power of two
IsPowerOfTwo(x) == \E e \in 0..x : 2 ^ e = x

\* the structural invariant of a plan and of its sub-plans
RECURSIVE Structured(_)
Structured(plan) ==
    CASE plan.kind = "Improved" -> plan.n \in KernelSizes
      [] plan.kind = "RadixP" ->
            /\ plan.p > 1 /\ plan.q > 1 /\ plan.p * plan.q = plan.n
            /\ plan.dft_p.kind # "None" /\ plan.dft_p.n = plan.p
            /\ plan.dft_q.kind # "None" /\ plan.dft_q.n = plan.q
            /\ Len(plan.wtable) = plan.n
            /\ Structured(plan.dft_p) /\ Structured(plan.dft_q)
      [] plan.kind = "Bluestein" ->
            /\ plan.dft_nb.n = plan.nb
            /\ IsPowerOfTwo(plan.nb)
            /\ plan.nb >= 2 * plan.n - 1
            /\ \A x \in (2 * plan.n - 1)..(plan.nb - 1) : ~IsPowerOfTwo(x)
            /\ Len(plan.w0) = plan.n
            /\ Len(plan.w1) = plan.nb
            /\ Structured(plan.dft_nb)
      [] plan.kind = "Rader" ->
            /\ plan.dft_n1.n = plan.n - 1
            /\ Len(plan.omega) = plan.n - 1
            /\ Structured(plan.dft_n1)
      [] OTHER -> FALSE

\* C19: every plan that is built, and every sub-plan in it, is structured: a
\* mixed-radix plan for N has p > 1, q > 1, p * q = N, both sub-plans, of the
\* sizes p and q, and a twiddle table of length N; a Bluestein plan for N has a
\* sub-plan of size N_b, the smallest power of two >= 2N - 1, w0 of length N and
\* w1 of length N_b; a Rader plan for N has a sub-plan of size N - 1 and omega
\* of length N - 1.
C19_Structure == xplan.kind # "None" => (xplan.n > 0 /\ Structured(xplan))

\* a Bluestein plan has been built, its sub-plan a mixed-radix plan over two
\* kernels
C19_Witness ==
    /\ xplan.kind = "Bluestein"
    /\ xplan.dft_nb.kind = "RadixP"
    /\ xplan.dft_nb.dft_p.kind = "Improved"
    /\ xplan.dft_nb.dft_q.kind = "Improved"
    /\ Len(xplan.w1) > Len(xplan.w0)

\* C17: no step of an xform_many call changes the plan, its tables, its
\* sub-plans or either cache, and calls on the same plan that run at the same
\* time, each with its own output, end as each of them ends when run alone:
\* without a panic and with the output of xform_many.
C17_ParallelAsSerial ==
    /\ [][/\ xplan.kind # "None" => xplan' = xplan
           /\ PRIME_LORE' = PRIME_LORE
           /\ PLAN_CACHE' = PLAN_CACHE
           /\ plans' = plans]_vars
    /\ [](\A t \in Threads :
            /\ pstate[t].pc # "panicked"
            /\ pstate[t].pc = "done" =>
                  LET c == pstate[t].c
                  IN Done(pstate[t].out) =
                        xform_many(xplan, c.input, Marks(Len(pstate[t].out)), c.istep,
                                   c.istep2, c.ostep, c.ostep2, c.count))

\* two calls on one Bluestein plan, on different inputs, have both ended, and
\* each has taken a step while the other was inside its call
C17_Witness ==
    /\ xplan.kind = "Bluestein"
    /\ \A t \in Threads : pstate[t].pc = "done" /\ pstate[t].met
    /\ pstate[1].c.input # pstate[2].c.input

\* C1: for every N >= 1 and every x of length N, find_dft(N).xform(x, y) ends
\* without a panic and leaves in y the unnormalized forward DFT of x (rounding
\* left out: the transform is run in exact arithmetic)
C1_XformIsDFT == xin # <<>> => xout.ok /\ xout.out = DFT(xin)

=============================================================================
